---- MODULE Spec2Model ----
(***************************************************************************)
(* Model of the SVACE Annotator triage pipeline (zigz7g/Diplom):           *)
(*   services/analysis/heuristics.py   path / rule heuristics              *)
(*   services/llm/annotator.py         AIAnnotator (oracle answer parsing) *)
(*   ui/main_window.py                 _AIWorker, MainWindow AI slots      *)
(*   services/code_provider.py         CodeProvider index, find_best       *)
(*   services/sarif_reader.py, tools/ai_annotate_cli.py, data/importers/   *)
(*                                     the report parsers                  *)
(*   services/use_cases.py, data/repositories/in_memory_repository.py      *)
(*                                     the import services                 *)
(*                                                                         *)
(* Text is modelled as a sequence of characters, one element per source    *)
(* character.  A Cyrillic letter is written "c:<translit>" (lower case)    *)
(* or "C:<translit>" (upper case), so that it never equals a Latin letter. *)
(* Free text whose characters are never inspected (comments, prose) may    *)
(* use one multi-character element per run of non-blank characters.        *)
(***************************************************************************)
EXTENDS Integers, Sequences, FiniteSets, TLC

VARIABLES
    warnings,     \* the WarningDTO objects: index -> record (core/schema.py)
    lastRaw,      \* SpecTriage: the oracle answer of the last triage;
                  \* SpecImport: the record of the report that was read
    lastRes,      \* SpecTriage: the raw result last handed to _coerce_ai_result;
                  \* SpecImport: what the parser did with the record
    phase,        \* SpecTriage: "new" | "triaged" | "oracle_raised" | "applied" | "slot_raised";
                  \* SpecImport: "new" | "imported"; SpecResolve: "new" | "bound" | "resolved";
                  \* SpecReport: "new" | "filled" | "parsed" | "imported" | "listed";
                  \* SpecPdf: "outer" | "scan" | "emit" | "returned" | "raised"
    workers,      \* SpecBatch: the _AIWorker objects, one per _ai_run call
    queue,        \* SpecBatch: queued signals to the main thread (FIFO)
    ui,           \* SpecBatch: MainWindow state seen by the AI slots
    hist,         \* SpecBatch: observation history of the run (ghost)
    code,         \* SpecIndex: the CodeProvider object (root, _by_rel, _by_name)
    idx           \* SpecIndex: threads' positions and observations;
                  \* SpecResolve: the resolver call and its result

vars == <<warnings, lastRaw, lastRes, phase, workers, queue, ui, hist, code, idx>>

-----------------------------------------------------------------------------
(* Text helpers (Python str methods)                                       *)

Letters ==
    <<"a","b","c","d","e","f","g","h","i","j","k","l","m",
      "n","o","p","q","r","s","t","u","v","w","x","y","z">>

Capitals ==
    <<"A","B","C","D","E","F","G","H","I","J","K","L","M",
      "N","O","P","Q","R","S","T","U","V","W","X","Y","Z">>

\* the Cyrillic letters that occur in the program's status words
CyrLetters ==
    <<"c:p","c:o","c:d","c:t","c:v","c:e","c:r","c:zh","c:n","c:k","c:l","c:b","c:a">>

CyrCapitals ==
    <<"C:p","C:o","C:d","C:t","C:v","C:e","C:r","C:zh","C:n","C:k","C:l","C:b","C:a">>

LowerAll == Letters \o CyrLetters

UpperAll == Capitals \o CyrCapitals

\* str.lower() / str.upper() character tables
LowerTable == [c \in {UpperAll[i] : i \in 1..Len(UpperAll)} |->
                 LowerAll[CHOOSE i \in 1..Len(UpperAll) : UpperAll[i] = c]]

UpperTable == [c \in {LowerAll[i] : i \in 1..Len(LowerAll)} |->
                 UpperAll[CHOOSE i \in 1..Len(LowerAll) : LowerAll[i] = c]]

LowerChar(c) == IF c \in DOMAIN LowerTable THEN LowerTable[c] ELSE c

UpperChar(c) == IF c \in DOMAIN UpperTable THEN UpperTable[c] ELSE c

\* str.lower() and str.upper() (SubSeq makes the result a plain tuple)
Lower(s) == SubSeq([i \in 1..Len(s) |-> LowerChar(s[i])], 1, Len(s))

Upper(s) == SubSeq([i \in 1..Len(s) |-> UpperChar(s[i])], 1, Len(s))

\* str.startswith
StartsWith(s, p) ==
    /\ Len(p) <= Len(s)
    /\ \A i \in 1..Len(p) : s[i] = p[i]

\* str.endswith
EndsWith(s, p) ==
    /\ Len(p) <= Len(s)
    /\ \A i \in 1..Len(p) : s[Len(s) - Len(p) + i] = p[i]

\* the `in` operator on strings (substring test)
Contains(s, p) ==
    \E k \in 0..(Len(s) - Len(p)) : \A i \in 1..Len(p) : s[k + i] = p[i]

IsSpace(c) == c \in {" ", "\t", "\n"}

RECURSIVE LStrip(_)
LStrip(s) ==
    IF s # <<>> /\ IsSpace(Head(s)) THEN LStrip(Tail(s)) ELSE s

RECURSIVE RStrip(_)
RStrip(s) ==
    IF s # <<>> /\ IsSpace(s[Len(s)]) THEN RStrip(SubSeq(s, 1, Len(s) - 1)) ELSE s

\* str.strip()
Strip(s) == RStrip(LStrip(s))

\* the program's words, as character sequences
S_confirmed == <<"c","o","n","f","i","r","m","e","d">>

S_false_positive == <<"f","a","l","s","e","_","p","o","s","i","t","i","v","e">>

S_critical == <<"c","r","i","t","i","c","a","l">>

S_medium == <<"m","e","d","i","u","m">>

S_low == <<"l","o","w">>

S_info == <<"i","n","f","o">>

S_unknown == <<"u","n","k","n","o","w","n">>

\* "Podtverzhdeno" (confirmed), the status word of core/schema.py
S_Podtverzhdeno ==
    <<"C:p","c:o","c:d","c:t","c:v","c:e","c:r","c:zh","c:d","c:e","c:n","c:o">>

\* "Otkloneno" (rejected)
S_Otkloneno == <<"C:o","c:t","c:k","c:l","c:o","c:n","c:e","c:n","c:o">>

\* "Ne obrabotano" (not processed), the initial status
S_NeObrabotano ==
    <<"C:n","c:e"," ","c:o","c:b","c:r","c:a","c:b","c:o","c:t","c:a","c:n","c:o">>

SeverityNames == {S_critical, S_medium, S_low, S_info}

-----------------------------------------------------------------------------
(* services/analysis/heuristics.py                                         *)
(* A path is the sequence of its parts (pathlib.Path.parts of a relative   *)
(* POSIX path); the name is the last part.                                 *)

PathName(path) == IF path = <<>> THEN <<>> ELSE path[Len(path)]

PathPartsLower(path) == {Lower(path[i]) : i \in 1..Len(path)}

\* "/tests/" in path.as_posix(): a part spelled exactly "tests" with a
\* separator on both sides, i.e. neither the first nor the last part
AsPosixHasTestsDir(path) ==
    \E i \in 2..(Len(path) - 1) : path[i] = <<"t","e","s","t","s">>

_detect_file_role(path) ==
    LET parts == PathPartsLower(path)
        name  == Lower(PathName(path))
    IN  IF \/ <<"t","e","s","t","s">> \in parts
           \/ StartsWith(name, <<"t","e","s","t","_">>)
           \/ EndsWith(name, <<"_","t","e","s","t",".","p","y">>)
           \/ AsPosixHasTestsDir(path)
        THEN [role |-> "test", tags |-> {"test-file"}]
        ELSE IF \/ <<"d","o","c","s">> \in parts
                \/ <<"d","o","c">> \in parts
                \/ <<"h","o","w","t","o">> \in parts
                \/ <<"t","o","p","i","c","s">> \in parts
                \/ EndsWith(name, <<".","t","x","t">>)
                \/ EndsWith(name, <<".","r","s","t">>)
        THEN [role |-> "doc", tags |-> {"documentation"}]
        ELSE IF \/ EndsWith(name, <<".","p","o">>)
                \/ <<"l","o","c","a","l","e">> \in parts
        THEN [role |-> "locale", tags |-> {"locale"}]
        ELSE IF \E ext \in {<<".","h","t","m","l">>, <<".","j","s">>,
                            <<".","t","s">>, <<".","c","s","s">>} :
                    EndsWith(name, ext)
        THEN [role |-> "frontend", tags |-> {"frontend"}]
        ELSE IF \E ext \in {<<".","y","m","l">>, <<".","y","a","m","l">>,
                            <<".","i","n","i">>, <<".","c","f","g">>,
                            <<".","j","s","o","n">>} :
                    EndsWith(name, ext)
        THEN [role |-> "config", tags |-> {"config-file"}]
        ELSE IF name \in {<<"s","e","t","t","i","n","g","s",".","p","y">>,
                          <<"c","o","n","f","i","g",".","p","y">>}
        THEN [role |-> "config", tags |-> {"config-file"}]
        ELSE IF \/ <<"s","i","t","e","-","p","a","c","k","a","g","e","s">> \in parts
                \/ <<"d","i","s","t","-","p","a","c","k","a","g","e","s">> \in parts
        THEN [role |-> "third_party", tags |-> {"third-party"}]
        ELSE [role |-> "prod", tags |-> {}]

_detect_rule_family(rule_id) ==
    LET r == Upper(rule_id)
    IN  IF \/ Contains(r, <<"C","R","Y","P","T","O">>)
           \/ Contains(r, <<"P","A","S","S","W","O","R","D">>)
           \/ Contains(r, <<"S","E","C","R","E","T">>)
        THEN "crypto"
        ELSE IF Contains(r, <<"S","Q","L">>) THEN "sql"
        ELSE IF Contains(r, <<"X","S","S">>) THEN "xss"
        ELSE IF Contains(r, <<"C","O","N","F","I","G">>) THEN "config"
        ELSE IF \/ Contains(r, <<"A","U","T","H">>)
                \/ Contains(r, <<"S","E","S","S","I","O","N">>)
        THEN "auth"
        ELSE "other"

_normalize_severity(level) ==
    LET lvl == Lower(level)
    IN  IF Contains(lvl, <<"c","r","i","t">>) THEN S_critical
        ELSE IF Contains(lvl, <<"m","e","d">>) THEN S_medium
        ELSE IF Contains(lvl, <<"l","o","w">>) THEN S_low
        ELSE IF Contains(lvl, <<"i","n","f","o">>) THEN S_info
        ELSE S_unknown

\* analyze_warning(rule_id, file_path, level, code, text) -> HeuristicContext
\* (file_path, summary and the flags is_config / is_frontend, which feed
\* only the prompt text, are not kept)
analyze_warning(rule_id, file_path, level, text) ==
    LET fr          == _detect_file_role(file_path)
        rule_family == _detect_rule_family(rule_id)
        severity    == _normalize_severity(level)
        is_test     == fr.role = "test"
        is_doc      == fr.role \in {"doc", "example"}
        is_example  == Contains(Lower(text), <<"e","x","a","m","p","l","e">>)
        is_locale   == fr.role = "locale"
        is_third    == fr.role = "third_party"
        risk_hint   ==
            IF is_test \/ is_doc \/ is_locale \/ is_third THEN "likely_fp"
            ELSE IF /\ rule_family \in {"crypto", "sql", "auth"}
                    /\ severity \in {S_critical, S_medium}
                 THEN "likely_tp"
            ELSE "unclear"
        family_tag  == IF rule_family \in {"crypto", "sql", "xss", "auth"}
                       THEN {rule_family} ELSE {}
        example_tag == IF is_example THEN {"example-in-text"} ELSE {}
    IN  [file_role      |-> fr.role,
         is_test        |-> is_test,
         is_doc         |-> is_doc,
         is_example     |-> is_example,
         is_locale      |-> is_locale,
         is_third_party |-> is_third,
         rule_family    |-> rule_family,
         severity       |-> severity,
         tags           |-> fr.tags \cup family_tag \cup example_tag,
         risk_hint      |-> risk_hint]

-----------------------------------------------------------------------------
(* Python values that cross the oracle / annotator / UI boundaries         *)
(*   kind "str"    s = the text                                            *)
(*   kind "numstr" s = the text, a numeral; n = its value                  *)
(*   kind "num"    n = the value (int or float), s = its repr              *)
(*   kind "bool"   b                                                       *)
(*   kind "none"   None / JSON null                                        *)
(*   kind "obj"    a non-empty dict                                        *)
(*   kind "nan"    float("nan")                                            *)
(* Numbers that are confidences are counted in thousandths: 1.0 is ConfOne.*)

ConfOne == 10 * 100

StrV(s) == [kind |-> "str", s |-> s, n |-> 0, b |-> FALSE]

NumStrV(s, n) == [kind |-> "numstr", s |-> s, n |-> n, b |-> FALSE]

NumV(s, n) == [kind |-> "num", s |-> s, n |-> n, b |-> FALSE]

BoolV(b) == [kind |-> "bool", s |-> <<>>, n |-> 0, b |-> b]

NoneV == [kind |-> "none", s |-> <<>>, n |-> 0, b |-> FALSE]

ObjV == [kind |-> "obj", s |-> <<>>, n |-> 0, b |-> FALSE]

NanV == [kind |-> "nan", s |-> <<>>, n |-> 0, b |-> FALSE]

\* str(v)
PyStr(v) ==
    CASE v.kind \in {"str", "numstr", "num"} -> v.s
      [] v.kind = "bool" -> IF v.b THEN <<"T","r","u","e">> ELSE <<"F","a","l","s","e">>
      [] v.kind = "none" -> <<"N","o","n","e">>
      [] v.kind = "obj"  -> <<"{", "...", "}">>
      [] v.kind = "nan"  -> <<"n","a","n">>

\* bool(v), as used by `v or default`
PyTruth(v) ==
    CASE v.kind \in {"str", "numstr"} -> v.s # <<>>
      [] v.kind = "num"  -> v.n # 0
      [] v.kind = "bool" -> v.b
      [] v.kind = "none" -> FALSE
      [] v.kind \in {"obj", "nan"} -> TRUE

-----------------------------------------------------------------------------
(* The oracle answer: a sequence of tokens.                                *)
(*   "{" "}"   brace characters                                            *)
(*   "ws"      white space                                                 *)
(*   "text"    prose without braces                                        *)
(*   "fence"   a code fence                                                *)
(*   "member"  "k": v  (a JSON object member with a scalar value)          *)
(*   "key"     "k":    (a member name whose value is the object following) *)

Tok(t) == [t |-> t, k |-> "", v |-> NoneV]

Member(k, v) == [t |-> "member", k |-> k, v |-> v]

KeyTok(k) == [t |-> "key", k |-> k, v |-> ObjV]

IsWsTok(x) == x.t = "ws"

RECURSIVE LStripToks(_)
LStripToks(r) ==
    IF r # <<>> /\ IsWsTok(Head(r)) THEN LStripToks(Tail(r)) ELSE r

RECURSIVE RStripToks(_)
RStripToks(r) ==
    IF r # <<>> /\ IsWsTok(r[Len(r)]) THEN RStripToks(SubSeq(r, 1, Len(r) - 1)) ELSE r

\* raw.index("{"): the first brace, 0 when there is none (ValueError)
IndexLBrace(r) ==
    IF \E i \in 1..Len(r) : r[i].t = "{"
    THEN CHOOSE i \in 1..Len(r) :
            /\ r[i].t = "{"
            /\ \A j \in 1..(i - 1) : r[j].t # "{"
    ELSE 0

\* raw.rindex("}"): the last closing brace, 0 when there is none
RIndexRBrace(r) ==
    IF \E i \in 1..Len(r) : r[i].t = "}"
    THEN CHOOSE i \in 1..Len(r) :
            /\ r[i].t = "}"
            /\ \A j \in (i + 1)..Len(r) : r[j].t # "}"
    ELSE 0

\* json.loads grammar on tokens (white space skipped):
\*   object := "{" item* "}"      item := member | key object
RECURSIVE ItemsEnd(_, _)
ItemsEnd(t, i) ==
    IF i > Len(t) THEN 0
    ELSE IF t[i].t = "ws" THEN ItemsEnd(t, i + 1)
    ELSE IF t[i].t = "}" THEN i
    ELSE IF t[i].t = "member" THEN ItemsEnd(t, i + 1)
    ELSE IF t[i].t = "key" /\ i + 1 <= Len(t) /\ t[i + 1].t = "{"
         THEN LET e == ItemsEnd(t, i + 2)
              IN  IF e = 0 THEN 0 ELSE ItemsEnd(t, e + 1)
    ELSE 0

\* json.loads(part) succeeds (and gives a dict) iff the object that starts
\* at the first token ends at the last one
JsonLoadsOk(part) ==
    /\ part # <<>>
    /\ part[1].t = "{"
    /\ ItemsEnd(part, 2) = Len(part)

BraceDepthBefore(t, i) ==
    Cardinality({j \in 1..(i - 1) : t[j].t = "{"})
      - Cardinality({j \in 1..(i - 1) : t[j].t = "}"})

\* data.get(k, default) on the dict json.loads returned (the last duplicate
\* member wins)
DictGet(part, k, default) ==
    LET I == {i \in 1..Len(part) :
                /\ part[i].t \in {"member", "key"}
                /\ part[i].k = k
                /\ BraceDepthBefore(part, i) = 1}
    IN  IF I = {} THEN default
        ELSE part[CHOOSE i \in I : \A j \in I : j <= i].v

-----------------------------------------------------------------------------
(* Inputs: the findings                                                    *)

RuleIds ==
    {<<"C","O","N","F","I","G","_","C","R","Y","P","T","O","_","K","E","Y","_","H","A","R","D","C","O","D","E","D">>,
     <<"s","q","l","_","i","n","j","e","c","t","i","o","n">>,
     <<"C","O","N","F","I","G","_","D","E","B","U","G">>,
     <<"N","U","L","L","_","D","E","R","E","F">>}

\* WarningDTO.severity as the importers give it, and one foreign word
Levels == {S_critical, S_low, <<"e","r","r","o","r">>}

FilePaths ==
    {<<<<"a","p","p">>, <<"v","i","e","w","s",".","p","y">>>>,
     <<<<"t","e","s","t","s">>, <<"t","e","s","t","_","f","o","o",".","p","y">>>>,
     <<<<"d","o","c","s">>, <<"r","e","a","d","m","e",".","t","x","t">>>>,
     <<<<"l","o","c","a","l","e">>, <<"r","u">>, <<"d","j","a","n","g","o",".","p","o">>>>,
     <<<<"s","t","a","t","i","c">>, <<"a","p","p",".","j","s">>>>,
     <<<<"s","i","t","e","-","p","a","c","k","a","g","e","s">>, <<"l","i","b">>, <<"m","o","d",".","p","y">>>>,
     <<<<"T","e","s","t","s">>, <<"a",".","p","y">>>>}

Messages == {<<>>, <<"E","x","a","m","p","l","e">>}

-----
(* services/llm/annotator.py                                               *)

\* default_comment: "Model' vernula nekorrektnyj otvet, ispol'zovan
\* rezul'tat po evristike."
default_comment == <<"Model' vernula nekorrektnyj otvet,", " ",
                     "ispol'zovan rezul'tat po evristike.">>

default_status(ctx) ==
    IF ctx.risk_hint = "likely_tp" THEN S_Podtverzhdeno ELSE S_Otkloneno

\* json_part = raw[raw.index("{") : raw.rindex("}") + 1] of the stripped
\* answer; <<>> when a brace is missing (ValueError) or the slice is empty
json_part(raw_text) ==
    LET raw   == RStripToks(LStripToks(raw_text))
        start == IndexLBrace(raw)
        end   == RIndexRBrace(raw)
    IN  IF start = 0 \/ end = 0 THEN <<>> ELSE SubSeq(raw, start, end)

\* AIAnnotator._parse_answer(raw, fallback_ctx) -> (status_ru, comment)
\* (raw is the text the client returned; both clients return str)
_parse_answer(raw_text, ctx) ==
    LET raw   == RStripToks(LStripToks(raw_text))
        part  == json_part(raw_text)
        fallback == [status_ru |-> default_status(ctx), comment |-> default_comment]
    IN  IF raw = <<>> THEN fallback
        ELSE IF ~JsonLoadsOk(part) THEN fallback
        ELSE
          LET status_raw == Strip(PyStr(DictGet(part, "status", StrV(<<>>))))
              comment0   == Strip(PyStr(DictGet(part, "comment", StrV(<<>>))))
              comment    == IF comment0 = <<>> THEN default_comment ELSE comment0
              status_low == Lower(status_raw)
              is_issue   == DictGet(part, "is_security_issue", NoneV)
              status_ru  ==
                IF StartsWith(status_low, <<"c:p","c:o","c:d","c:t","c:v","c:e","c:r","c:zh">>)
                THEN S_Podtverzhdeno
                ELSE IF \/ StartsWith(status_low, <<"c:o","c:t","c:k","c:l">>)
                        \/ StartsWith(status_low, <<"f","a","l","s","e">>)
                        \/ StartsWith(status_low, <<"f","p">>)
                THEN S_Otkloneno
                ELSE IF is_issue.kind = "bool"
                THEN (IF is_issue.b THEN S_Podtverzhdeno ELSE S_Otkloneno)
                ELSE default_status(ctx)
          IN  [status_ru |-> status_ru, comment |-> comment]

\* the closed tag vocabulary in sorted() order
TagOrder ==
    <<"auth", "config", "config-file", "crypto", "documentation",
      "example-in-text", "frontend", "locale", "other", "sql",
      "test-file", "third-party", "xss">>

RECURSIVE JoinComma(_)
JoinComma(ts) ==
    IF ts = <<>> THEN <<>>
    ELSE IF Len(ts) = 1 THEN <<ts[1]>>
    ELSE <<ts[1], ",">> \o JoinComma(Tail(ts))

\* ",".join(sorted(set(label_parts)))
LabelOf(parts) ==
    LET InParts(x) == x \in parts
    IN  JoinComma(SelectSeq(TagOrder, InParts))

\* the base confidence annotate_one derives from the risk hint
base_conf(risk_hint) ==
    IF risk_hint = "likely_tp" THEN (9 * ConfOne) \div 10
    ELSE IF risk_hint = "likely_fp" THEN (85 * ConfOne) \div 100
    ELSE (7 * ConfOne) \div 10

\* analyze_warning tabulated over the inputs (evaluated once)
analyze_warning_table ==
    [r \in RuleIds, p \in FilePaths, l \in Levels \cup SeverityNames, m \in Messages |->
        analyze_warning(r, p, l, m)]

\* AIAnnotator.annotate_one(rule, level, file_path, line, code, text, status)
\* given the text client.generate returned
annotate_one(rule, level, file_path, text, raw_answer) ==
    LET ctx    == analyze_warning_table[rule, file_path, level, text]
        parsed == _parse_answer(raw_answer, ctx)
        normalized_status ==
            IF StartsWith(Lower(parsed.status_ru),
                          <<"c:p","c:o","c:d","c:t","c:v","c:e","c:r","c:zh">>)
            THEN S_confirmed ELSE S_false_positive
        \* ctx.severity is never empty ("unknown" at least)
        severity == IF ctx.severity \in SeverityNames THEN ctx.severity ELSE S_info
        conf     == base_conf(ctx.risk_hint)
        label    == LabelOf({ctx.rule_family} \cup ctx.tags)
    IN  [shape      |-> "dict",
         has        |-> {"status", "severity", "comment", "confidence", "label"},
         status     |-> StrV(normalized_status),
         severity   |-> StrV(severity),
         comment    |-> StrV(parsed.comment),
         confidence |-> NumV(<<"float">>, conf),
         label      |-> StrV(label)]

-----------------------------------------------------------------------------
(* ui/main_window.py: normalisation and application of an annotator result *)
(* A result is [shape, has, status, severity, comment, confidence, label]: *)
(* `has` names the fields the object really carries (keys of a dict,       *)
(* positions of a tuple, attributes of an object); the others take the     *)
(* defaults of .get / getattr.                                             *)

ResultFields == {"status", "severity", "comment", "confidence", "label"}

\* src[k] as _coerce_ai_result builds src from a dict, a tuple or an object
SrcGet(res, k, default) ==
    IF k \in res.has THEN res[k] ELSE default

\* float(v): [ok, nan, n]
PyFloat(v) ==
    CASE v.kind \in {"num", "numstr"} -> [ok |-> TRUE, nan |-> FALSE, n |-> v.n]
      [] v.kind = "bool" -> [ok |-> TRUE, nan |-> FALSE, n |-> IF v.b THEN ConfOne ELSE 0]
      [] v.kind = "nan"  -> [ok |-> TRUE, nan |-> TRUE, n |-> 0]
      [] v.kind \in {"str", "none", "obj"} -> [ok |-> FALSE, nan |-> FALSE, n |-> 0]

Min(a, b) == IF a < b THEN a ELSE b

Max(a, b) == IF a > b THEN a ELSE b

\* the conversion without the final clamp
CoerceConfidenceUnclamped(v) ==
    LET f     == PyFloat(v)
        conf0 == IF f.ok THEN f.n ELSE 0
    IN  IF conf0 > ConfOne THEN conf0 \div 100 ELSE conf0

\* max(0.0, min(1.0, conf)) after `if conf > 1.0: conf = conf / 100.0`;
\* for NaN every comparison is false, so min(1.0, nan) keeps 1.0
CoerceConfidence(v) ==
    LET f     == PyFloat(v)
        conf0 == IF f.ok THEN f.n ELSE 0
        conf  == IF conf0 > ConfOne THEN conf0 \div 100 ELSE conf0
    IN  IF f.ok /\ f.nan THEN ConfOne
        ELSE Max(0, Min(ConfOne, conf))

\* (src.get(k) or "").strip() raises AttributeError on a truthy non-string
StripRaises(v) == PyTruth(v) /\ v.kind \notin {"str", "numstr"}

OrEmptyStrip(v) == IF PyTruth(v) THEN Strip(v.s) ELSE <<>>

\* MainWindow._coerce_ai_result(res) -> dict, or an exception
_coerce_ai_result(res) ==
    LET status0 == Lower(PyStr(SrcGet(res, "status", StrV(<<>>))))
        status  == IF status0 \in {S_confirmed, S_false_positive}
                   THEN status0 ELSE S_false_positive
        sev0    == Lower(PyStr(SrcGet(res, "severity", StrV(<<>>))))
        sev     == IF sev0 \in SeverityNames THEN sev0 ELSE S_info
        comment == SrcGet(res, "comment", NoneV)
        label   == SrcGet(res, "label", NoneV)
    IN  IF StripRaises(comment) \/ StripRaises(label)
        THEN [raised |-> TRUE, status |-> status, severity |-> sev,
              comment |-> <<>>, confidence |-> 0, label |-> <<>>]
        ELSE [raised     |-> FALSE,
              status     |-> status,
              severity   |-> sev,
              comment    |-> OrEmptyStrip(comment),
              confidence |-> CoerceConfidence(SrcGet(res, "confidence", NumV(<<"0">>, 0))),
              label      |-> OrEmptyStrip(label)]

\* the assignments without the translation of the status and without the
\* check of the severity
_apply_ai_result_verbatim(w, res_dict) ==
    [w EXCEPT !.status        = res_dict.status,
              !.severity_ui   = res_dict.severity,
              !.comment       = res_dict.comment,
              !.ml_confidence = res_dict.confidence]

\* MainWindow._apply_ai_result(w, res_dict): the WarningDTO after the call
_apply_ai_result(w, res_dict) ==
    LET status_ru == IF res_dict.status = S_confirmed
                     THEN S_Podtverzhdeno ELSE S_Otkloneno
        sev       == IF res_dict.severity \in SeverityNames
                     THEN res_dict.severity ELSE S_info
        prefix    == IF res_dict.label # <<>>
                     THEN <<"[">> \o res_dict.label \o <<"]", " ">> ELSE <<>>
    IN  [w EXCEPT !.status        = status_ru,
                  !.severity_ui   = sev,
                  !.comment       = prefix \o res_dict.comment,
                  !.ml_confidence = res_dict.confidence]

\* WarningDTO as a parser leaves it (core/schema.py defaults)
WarningDTO(rule_id, severity, file_path, message) ==
    [rule_id       |-> rule_id,
     severity      |-> severity,
     file_path     |-> file_path,
     message       |-> message,
     status        |-> S_NeObrabotano,
     comment       |-> <<>>,
     severity_ui   |-> <<>>,
     ml_confidence |-> 0]

\* WarningDTO.eff_severity
eff_severity(w) == IF w.severity_ui # <<>> THEN w.severity_ui ELSE w.severity

\* the arguments _AIWorker.run passes to annotate_one for warning w
\* (level = w.severity_ui or w.severity or "")
AnnotateWarning(w, raw_answer) ==
    annotate_one(w.rule_id,
                 IF w.severity_ui # <<>> THEN w.severity_ui ELSE w.severity,
                 w.file_path, w.message, raw_answer)

-----------------------------------------------------------------------------
(* Inputs: oracle answers and annotator results                            *)

\* "PODTVERZHDENO" in capitals
S_PODTVERZHDENO ==
    <<"C:p","C:o","C:d","C:t","C:v","C:e","C:r","C:zh","C:d","C:e","C:n","C:o">>

CommentX == <<"cursor.execute", " ", "builds", " ", "the", " ", "query">>

\* the answers client.generate may return
\* the answer SYSTEM_PROMPT asks for, with the status confirmed:
\* {"status": "confirmed", "severity": "medium", "confidence": 0.9,
\*  "label": "SQLi", "comment": "..."}
PromptedConfirmed ==
    <<Tok("{"), Member("status", StrV(S_confirmed)),
      Member("severity", StrV(S_medium)),
      Member("confidence", NumV(<<"0",".","9">>, (9 * ConfOne) \div 10)),
      Member("label", StrV(<<"SQLi">>)),
      Member("comment", StrV(CommentX)), Tok("}")>>

OracleAnswers ==
    {<<>>,
     <<Tok("ws")>>,
     <<Tok("text")>>,
     \* {"status": "Podtverzhdeno", "comment": "..."}
     <<Tok("{"), Member("status", StrV(S_Podtverzhdeno)),
       Member("comment", StrV(CommentX)), Tok("}")>>,
     \* {"status": "Otkloneno", "comment": "..."}
     <<Tok("{"), Member("status", StrV(S_Otkloneno)),
       Member("comment", StrV(CommentX)), Tok("}")>>,
     \* I think this is bad. {"status":"confirmed","severity":"critical",
     \*   "label":"SQLi","comment":"x","confidence":150}
     <<Tok("text"), Tok("ws"), Tok("{"), Member("status", StrV(S_confirmed)),
       Member("severity", StrV(S_critical)), Member("label", StrV(<<"SQLi">>)),
       Member("comment", StrV(<<"x">>)),
       Member("confidence", NumV(<<"1","5","0">>, 150 * ConfOne)), Tok("}")>>,
     \* {"status": "false_positive"}
     <<Tok("{"), Member("status", StrV(S_false_positive)), Tok("}")>>,
     PromptedConfirmed,
     \* {"is_security_issue": true, "comment": "..."}
     <<Tok("{"), Member("is_security_issue", BoolV(TRUE)),
       Member("comment", StrV(CommentX)), Tok("}")>>,
     \* {"comment": "..."}
     <<Tok("{"), Member("comment", StrV(CommentX)), Tok("}")>>,
     \* {"status": "Podtverzhdeno"} see } above
     <<Tok("{"), Member("status", StrV(S_Podtverzhdeno)), Tok("}"),
       Tok("ws"), Tok("text"), Tok("}")>>,
     \* {"status": "Podtverzhdeno"     (never closed)
     <<Tok("{"), Member("status", StrV(S_Podtverzhdeno))>>,
     \* ```json {"status": " PODTVERZHDENO ", "comment": " "} ```
     <<Tok("fence"), Tok("ws"), Tok("{"),
       Member("status", StrV(<<" ">> \o S_PODTVERZHDENO \o <<" ">>)),
       Member("comment", StrV(<<" ">>)), Tok("}"), Tok("ws"), Tok("fence")>>,
     \* {"meta": {"status": "Otkloneno"}, "status": "Podtverzhdeno"}
     <<Tok("{"), KeyTok("meta"), Tok("{"), Member("status", StrV(S_Otkloneno)),
       Tok("}"), Member("status", StrV(S_Podtverzhdeno)), Tok("}")>>}

Result(has, status, severity, comment, confidence, label) ==
    [shape |-> "dict", has |-> has, status |-> status, severity |-> severity,
     comment |-> comment, confidence |-> confidence, label |-> label]

NoResult == Result({}, NoneV, NoneV, NoneV, NoneV, NoneV)

\* raw confidences an annotator result may carry
RawConfidences ==
    {NumV(<<"0",".","0">>, 0),
     NumV(<<"0",".","8","5">>, (85 * ConfOne) \div 100),
     NumV(<<"1",".","0">>, ConfOne),
     NumV(<<"1",".","5">>, (15 * ConfOne) \div 10),
     NumV(<<"8","5">>, 85 * ConfOne),
     NumV(<<"1","5","0">>, 150 * ConfOne),
     NumV(<<"2","0","0","0","0">>, 20000 * ConfOne),
     NumV(<<"-","3">>, (0 - 3) * ConfOne),
     NumStrV(<<"9","3">>, 93 * ConfOne),
     StrV(<<"h","i","g","h">>),
     BoolV(TRUE),
     NoneV,
     NanV}

\* a list or tuple result: _coerce_ai_result reads (status, severity, comment,
\* [confidence], [label]) from one of at least three items; a shorter one
\* falls through to getattr and its defaults
TupleResult(items) ==
    IF Len(items) >= 3
    THEN [shape      |-> "tuple",
          has        |-> {"status", "severity", "comment"}
                           \cup (IF Len(items) > 3 THEN {"confidence"} ELSE {})
                           \cup (IF Len(items) > 4 THEN {"label"} ELSE {}),
          status     |-> items[1],
          severity   |-> items[2],
          comment    |-> items[3],
          confidence |-> IF Len(items) > 3 THEN items[4] ELSE NoneV,
          label      |-> IF Len(items) > 4 THEN items[5] ELSE NoneV]
    ELSE [NoResult EXCEPT !.shape = "object"]

\* an object result with the attributes attrs, read by getattr
ObjectResult(attrs, status, severity, comment, confidence, label) ==
    [Result(attrs, status, severity, comment, confidence, label)
        EXCEPT !.shape = "object"]

\* results of the other shapes _coerce_ai_result supports
ShapedResults ==
    {TupleResult(<<StrV(<<"m","a","y","b","e">>), StrV(<<"h","i","g","h">>), StrV(<<"x">>)>>),
     TupleResult(<<StrV(<<"C","O","N","F","I","R","M","E","D">>), StrV(<<"L","o","w">>),
                   StrV(<<" ","o","k"," ">>), NumV(<<"8","5">>, 85 * ConfOne)>>),
     TupleResult(<<StrV(S_false_positive), StrV(S_critical), NoneV,
                   NumV(<<"0",".","5">>, ConfOne \div 2), StrV(<<"SQLi">>)>>),
     TupleResult(<<StrV(S_confirmed), StrV(S_critical)>>),
     ObjectResult({"status", "severity"}, StrV(S_confirmed),
                  StrV(<<"M","E","D","I","U","M">>), NoneV, NoneV, NoneV),
     ObjectResult(ResultFields, NumV(<<"1">>, ConfOne), NoneV, StrV(CommentX),
                  StrV(<<"h","i","g","h">>), NoneV)}

\* results of other shapes than annotate_one's: a dict with missing keys,
\* a 3-tuple, values of foreign types
AnnotatorResults ==
    {Result(ResultFields, StrV(<<"C","o","n","f","i","r","m","e","d">>),
            StrV(<<"C","R","I","T","I","C","A","L">>), StrV(CommentX), c,
            StrV(<<"SQLi">>)) : c \in RawConfidences}
    \cup
    {Result({"status", "severity", "comment"}, StrV(S_confirmed), StrV(S_low),
            StrV(<<" ">>), NoneV, NoneV),
     Result({"status"}, StrV(<<"m","a","y","b","e">>), NoneV, NoneV, NoneV, NoneV),
     Result(ResultFields, NoneV, StrV(<<"h","i","g","h">>), NoneV,
            StrV(<<"0",".","5">>), NoneV),
     Result(ResultFields, StrV(S_false_positive), StrV(S_medium),
            NumV(<<"4","2">>, 42 * ConfOne), NumV(<<"1">>, ConfOne), StrV(<<>>)),
     NoResult}
    \cup ShapedResults

-----------------------------------------------------------------------------
(* services/code_provider.py: CodeProvider                                 *)

\* the directory names os.walk does not descend into (_reindex, `skip`)
skip ==
    {<<"v","e","n","v">>, <<".","v","e","n","v">>, <<".","g","i","t">>,
     <<".","i","d","e","a">>, <<"_","_","p","y","c","a","c","h","e","_","_">>,
     <<"n","o","d","e","_","m","o","d","u","l","e","s">>,
     <<"d","i","s","t">>, <<"b","u","i","l","d">>}

\* the source roots the user can pick
SourceRoots == {"projA", "projB"}

\* os.path.basename of a root directory
RootBase(root) ==
    IF root = "projA" THEN <<"p","r","o","j","A">>
    ELSE IF root = "projB" THEN <<"p","r","o","j","B">>
    ELSE <<"p","r","o","j","C">>

\* the files below a root, in os.walk order (top-down); a file is the
\* sequence of the parts of its path relative to the root
DiskFiles(root) ==
    IF root = "projA"
    THEN << <<<<"R","E","A","D","M","E",".","t","x","t">>>>,
            <<<<".","g","i","t">>, <<"c","o","n","f","i","g">>>>,
            <<<<"a","p","p">>, <<"V","i","e","w","s",".","p","y">>>>,
            <<<<"t","e","s","t","s">>, <<"v","i","e","w","s",".","p","y">>>> >>
    ELSE IF root = "projB"
    THEN << <<<<"a","p","p">>, <<"v","i","e","w","s",".","p","y">>>>,
            <<<<"l","i","b">>, <<"u","t","i","l",".","p","y">>>> >>
    ELSE << <<<<"m", "y", "p", "k", "g">>, <<"a", ".", "p", "y">>>>,
            <<<<"s", "r", "c">>, <<"p", "k", "g">>, <<"a", ".", "p", "y">>>>,
            <<<<"s", "r", "c">>, <<"p", "k", "g">>, <<"b", ".", "p", "y">>>>,
            <<<<"o", "t", "h", "e", "r">>, <<"a", ".", "p", "y">>>> >>

\* a Path object below a root
PathOf(root, rel) == [root |-> root, rel |-> rel]

\* Path.as_posix() of a relative path
RECURSIVE as_posix(_)
as_posix(parts) ==
    IF parts = <<>> THEN <<>>
    ELSE IF Len(parts) = 1 THEN parts[1]
    ELSE parts[1] \o <<"/">> \o as_posix(Tail(parts))

\* os.walk with `dirnames[:] = []` on a skipped directory: a file is visited
\* unless a directory on its way from the root (the root included) is skipped
WalkSkips(root, rel) ==
    \/ RootBase(root) \in skip
    \/ \E i \in 1..(Len(rel) - 1) : rel[i] \in skip

\* the files _reindex visits, in order
WalkFiles(root) ==
    SelectSeq(DiskFiles(root), LAMBDA rel : ~WalkSkips(root, rel))

\* a dict with no key
EmptyDict == [k \in {} |-> <<>>]

\* d[key] = value
DictSet(d, key, value) ==
    [k \in DOMAIN d \cup {key} |-> IF k = key THEN value ELSE d[k]]

\* d.setdefault(key, []).append(value)
DictAppend(d, key, value) ==
    [k \in DOMAIN d \cup {key} |->
        IF k = key
        THEN (IF key \in DOMAIN d THEN d[key] ELSE <<>>) \o <<value>>
        ELSE d[k]]

\* _reindex, line 112: p.relative_to(self.root).as_posix().lower()
RelKey(rel) == Lower(as_posix(rel))

\* _reindex, line 114: fn.lower()
NameKey(rel) == Lower(rel[Len(rel)])

\* the two dicts after _reindex has added the first n visited files
RECURSIVE ByRelAfter(_, _)
ByRelAfter(root, n) ==
    IF n = 0 THEN EmptyDict
    ELSE DictSet(ByRelAfter(root, n - 1), RelKey(WalkFiles(root)[n]),
                 PathOf(root, WalkFiles(root)[n]))

RECURSIVE ByNameAfter(_, _)
ByNameAfter(root, n) ==
    IF n = 0 THEN EmptyDict
    ELSE DictAppend(ByNameAfter(root, n - 1), NameKey(WalkFiles(root)[n]),
                    PathOf(root, WalkFiles(root)[n]))

\* str.replace("\\", "/")
ReplaceBackslash(s) == [i \in 1..Len(s) |-> IF s[i] = "\\" THEN "/" ELSE s[i]]

\* str.lstrip("./"): drops leading characters that are "." or "/"
RECURSIVE LStripDotSlash(_)
LStripDotSlash(s) ==
    IF s # <<>> /\ Head(s) \in {".", "/"} THEN LStripDotSlash(Tail(s)) ELSE s

\* os.path.basename: what follows the last "/"
RECURSIVE Basename(_)
Basename(s) ==
    IF \E i \in 1..Len(s) : s[i] = "/"
    THEN Basename(Tail(s))
    ELSE s

\* find, line 44: the lookup key of a hint
FindKey(hint) ==
    LET r == LStripDotSlash(ReplaceBackslash(hint))
    IN  Lower(SubSeq(r, 1, Len(r)))

\* results of find: a Path, None, or the KeyError of `self._by_rel[key]`
FoundPath(p) == [kind |-> "path", root |-> p.root, rel |-> p.rel]

FoundNone == [kind |-> "none", root |-> "none", rel |-> <<>>]

FoundKeyError == [kind |-> "KeyError", root |-> "none", rel |-> <<>>]

\* CodeProvider.find run to completion against one root and two dicts
find(root, by_rel, by_name, relpath_or_name) ==
    IF root = "none" \/ relpath_or_name = <<>> THEN FoundNone
    ELSE LET key  == FindKey(relpath_or_name)
             base == Lower(Basename(key))
         IN  IF key \in DOMAIN by_rel THEN FoundPath(by_rel[key])
             ELSE IF base \in DOMAIN by_name /\ by_name[base] # <<>>
                  THEN FoundPath(by_name[base][1])
                  ELSE FoundNone

\* the file hints the resolver is called with
FileHints ==
    {<<>>,
     <<"v","i","e","w","s",".","p","y">>,
     <<"A","p","p","\\","V","i","e","w","s",".","p","y">>,
     <<".","/","l","i","b","/","u","t","i","l",".","p","y">>,
     <<"c","o","n","f","i","g">>}

-----------------------------------------------------------------------------
(* ui/main_window.py: _AIWorker.run in its QThread and the slots of        *)
(* MainWindow that receive its queued signals in the main thread           *)

\* number of findings the imported report holds
NumFindings == 2

\* number of batch runs the user starts
MaxRuns == 1

\* the attributes of the imported findings, repeated cyclically
BatchRules ==
    <<<<"s","q","l","_","i","n","j","e","c","t","i","o","n">>,
      <<"N","U","L","L","_","D","E","R","E","F">>,
      <<"C","O","N","F","I","G","_","D","E","B","U","G">>>>

BatchLevels == <<S_critical, S_low, S_low>>

BatchPaths ==
    <<<<<<"a","p","p">>, <<"v","i","e","w","s",".","p","y">>>>,
      <<<<"d","o","c","s">>, <<"r","e","a","d","m","e",".","t","x","t">>>>,
      <<<<"a","p","p">>, <<"v","i","e","w","s",".","p","y">>>>>>

Cyc(seq, k) == seq[((k - 1) % Len(seq)) + 1]

\* finding k as the SARIF import leaves it
ImportedFinding(k) ==
    WarningDTO(Cyc(BatchRules, k), Cyc(BatchLevels, k), Cyc(BatchPaths, k), <<>>)

\* the answers client.generate returns during a batch: an empty answer and
\* {"status": "Podtverzhdeno", "comment": "..."}
BatchAnswers ==
    {<<>>,
     <<Tok("{"), Member("status", StrV(S_Podtverzhdeno)),
       Member("comment", StrV(CommentX)), Tok("}")>>}

\* the fields _apply_ai_result writes
DispositionFields == {"status", "severity_ui", "comment", "ml_confidence"}

\* a queued signal of worker `run`
Signal(sig, run, i, w, res) == [sig |-> sig, run |-> run, i |-> i, w |-> w, res |-> res]

\* _AIWorker.__init__
NewWorker(ws) == [pc |-> "start", i |-> 0, stop |-> FALSE, ws |-> ws, res |-> NoResult]

\* no slot is executing in the main thread
HandlerIdle == [pc |-> "idle", w |-> 0, res |-> NoResult]

\* observations of the current run (ghost): findings handed to annotate_one,
\* findings annotate_one returned a result for, findings whose oracle call
\* raised, fields written per finding, and what a cancel request found
NewRun ==
    [submitted |-> {}, produced |-> {}, raised |-> {},
     written |-> [k \in 1..NumFindings |-> {}],
     cancelled |-> FALSE, inflight_at_cancel |-> 0, pending_at_cancel |-> {},
     finished_emitted |-> 0, finished_handled |-> FALSE]

\* _toggle_ai_actions(enabled)
_toggle_ai_actions(u, enabled) ==
    [u EXCEPT !.acts_enabled = enabled,
              !.btn_ai_enabled = enabled /\ u.current # 0]

\* a loop that never looks at _stop (not what the code does)
LoopNeverBreaks(wk) == FALSE

\* run, line 100: if self._stop: break
LoopBreaks(wk) == wk.stop

\* an exception handler that leaves the loop (not what the code does)
OnAnnotateErrorAbort(wk) == [wk EXCEPT !.pc = "finish"]

\* run, lines 147-149: except Exception: self.error.emit(str(e)); continue
OnAnnotateError(wk) == [wk EXCEPT !.pc = "loop"]

-----------------------------------------------------------------------------
(* Variables of the other specifications, at rest                          *)

NoWorkers == <<>>

NoQueue == <<>>

\* MainWindow after construction: AI menu actions enabled, no current item,
\* no progress dialog, no message box
UiIdle ==
    [acts_enabled |-> TRUE, btn_ai_enabled |-> FALSE, current |-> 0,
     handler |-> HandlerIdle, progress_open |-> FALSE, progress_value |-> 0,
     progress_max |-> 0, error_boxes |-> 0]

NoHist == <<>>

\* CodeProvider(None), as MainWindow.__init__ constructs it
NoCode == [root |-> "none", by_rel |-> EmptyDict, by_name |-> EmptyDict]

\* no call in progress in either thread
NoIdx ==
    [setter   |-> [pc |-> "idle", n |-> 0],
     resolver |-> [pc |-> "idle", hint |-> <<>>, key |-> <<>>,
                   roots |-> {}, result |-> FoundNone]]

TriageFrame == UNCHANGED <<workers, queue, ui, hist, code, idx>>

-----------------------------------------------------------------------------
(* SpecTriage: one finding through annotate_one, _coerce_ai_result and     *)
(* _apply_ai_result (the path of _AIWorker.run and _ai_progressed for one  *)
(* warning), for every finding and every oracle answer                     *)

InitTriage ==
    /\ \E rule \in RuleIds, level \in Levels, path \in FilePaths, msg \in Messages :
          warnings = <<WarningDTO(rule, level, path, msg)>>
    /\ lastRaw = <<>>
    /\ lastRes = NoResult
    /\ phase = "new"
    /\ workers = NoWorkers
    /\ queue = NoQueue
    /\ ui = UiIdle
    /\ hist = NoHist
    /\ code = NoCode
    /\ idx = NoIdx

\* annotate_one returns; the slot coerces and applies the result
TriageAnswered ==
    \E raw \in OracleAnswers :
        LET res == AnnotateWarning(warnings[1], raw)
            c   == _coerce_ai_result(res)
        IN  /\ warnings' = [warnings EXCEPT ![1] = _apply_ai_result(@, c)]
            /\ lastRaw' = raw
            /\ lastRes' = res
            /\ phase' = "triaged"
            /\ TriageFrame

\* client.generate raises inside annotate_one: the worker reports the error
\* and emits no result for the warning
TriageOracleRaised ==
    /\ phase' = "oracle_raised"
    /\ lastRaw' = <<>>
    /\ lastRes' = NoResult
    /\ UNCHANGED warnings
    /\ TriageFrame

\* the slot receives a result of another shape
TriageResultApplied ==
    \E res \in AnnotatorResults :
        LET c == _coerce_ai_result(res)
        IN  /\ warnings' = IF c.raised THEN warnings
                           ELSE [warnings EXCEPT ![1] = _apply_ai_result(@, c)]
            /\ lastRes' = res
            /\ phase' = IF c.raised THEN "slot_raised" ELSE "applied"
            /\ lastRaw' = <<>>
            /\ TriageFrame

NextTriage == TriageAnswered \/ TriageOracleRaised \/ TriageResultApplied

SpecTriage == InitTriage /\ [][NextTriage]_vars

-----------------------------------------------------------------------------
(* SpecDisposition: one finding through any sequence of AI results         *)
(* (_ai_progressed) and manual annotations (_annotate_current)             *)

\* the statuses AnnotateDialog.chosen returns
DialogStatuses == {S_NeObrabotano, S_Podtverzhdeno, S_Otkloneno}

\* what the user leaves in the comment box of AnnotateDialog
DialogTexts == {<<>>, <<" ">>, <<"o","k">>, <<" ","s","e","e"," ","#","1","\n">>}

\* finding k with the snippet and the coordinates of its SARIF region
LocatedFinding(k) ==
    ImportedFinding(k)
        @@ [code_snippet |-> <<"x","=","1">>, snippet_text |-> <<"x","=","1">>,
            start_line |-> 12, start_col |-> 1, end_line |-> 12 + k, end_col |-> 5]

InitDisposition ==
    /\ \E k \in 1..Len(BatchRules) : warnings = <<LocatedFinding(k)>>
    /\ lastRaw = <<>>
    /\ lastRes = NoResult
    /\ phase = "new"
    /\ workers = NoWorkers
    /\ queue = NoQueue
    /\ ui = UiIdle
    /\ hist = NoHist
    /\ code = NoCode
    /\ idx = NoIdx

\* a dialog whose severity is written to the reported severity (not what
\* the code does)
_annotate_current_reported ==
    \E status \in DialogStatuses, sev \in SeverityNames, text \in DialogTexts :
        /\ warnings' = [warnings EXCEPT ![1] =
                           [@ EXCEPT !.status = status,
                                     !.severity = sev,
                                     !.comment = Strip(text)]]
        /\ phase' = "manual"
        /\ lastRaw' = <<>>
        /\ lastRes' = NoResult
        /\ TriageFrame

\* _annotate_current with the dialog accepted: status, severity and the
\* stripped text of the dialog are written to the current warning
_annotate_current ==
    \E status \in DialogStatuses, sev \in SeverityNames, text \in DialogTexts :
        /\ warnings' = [warnings EXCEPT ![1] =
                           [@ EXCEPT !.status = status,
                                     !.severity_ui = sev,
                                     !.comment = Strip(text)]]
        /\ phase' = "manual"
        /\ lastRaw' = <<>>
        /\ lastRes' = NoResult
        /\ TriageFrame

NextDisposition ==
    \/ TriageAnswered
    \/ TriageOracleRaised
    \/ TriageResultApplied
    \/ _annotate_current

SpecDisposition == InitDisposition /\ [][NextDisposition]_vars

-----------------------------------------------------------------------------
(* Report parsers: services/sarif_reader.py with load_sarif of             *)
(* tools/ai_annotate_cli.py, and data/importers/*.py.  A file path is the  *)
(* text the report gives; None for a line number is NoLine                  *)

S_error == <<"e","r","r","o","r">>

S_warning == <<"w","a","r","n","i","n","g">>

S_note == <<"n","o","t","e">>

S_none == <<"n","o","n","e">>

S_high == <<"h","i","g","h">>

S_Unknown == <<"U","n","k","n","o","w","n">>

S_kriticheskij ==
    <<"c:k","c:r","c:i","c:t","c:i","c:ch","c:e","c:s","c:k","c:i","c:j">>

S_vysokij == <<"c:v","c:y","c:s","c:o","c:k","c:i","c:j">>

S_srednij == <<"c:s","c:r","c:e","c:d","c:n","c:i","c:j">>

S_nizkij == <<"c:n","c:i","c:z","c:k","c:i","c:j">>

S_informacionnyj ==
    <<"c:i","c:n","c:f","c:o","c:r","c:m","c:a","c:ts","c:i","c:o","c:n","c:n","c:y","c:j">>

NoLine == 0 - 1

\* a key the JSON object or a column the CSV header does not have
AbsentV == [kind |-> "absent", s |-> <<>>, n |-> 0, b |-> FALSE]

\* dict.get(key)
Get(v) == IF v.kind = "absent" THEN NoneV ELSE v

\* (v or "") for a str or None
OrEmpty(v) == IF PyTruth(Get(v)) THEN v.s ELSE <<>>

\* a or b for Optional[int]
IntOr(a, b) == IF a # NoLine /\ a # 0 THEN a ELSE b

\* the fields of the dataclass WarningDTO, the ones without a default, and
\* the attributes of the class
WarningDTOFields ==
    {"rule_id", "severity", "file_path", "message", "code_snippet", "status",
     "comment", "severity_ui", "start_line", "start_col", "end_line", "end_col",
     "snippet_text", "ml_model", "ml_label", "ml_confidence", "ml_reason"}

WarningDTORequired == {"rule_id", "severity", "file_path", "message"}

WarningDTOAttrs == WarningDTOFields \cup {"eff_severity"}

\* WarningDTO(**kwargs) returns an object; otherwise __init__ raises TypeError
Constructs(kwargs) ==
    /\ kwargs \subseteq WarningDTOFields
    /\ WarningDTORequired \subseteq kwargs

\* a WarningDTO with its coordinates
ParsedDTO(rule_id, severity, file_path, message, start_line, end_line) ==
    WarningDTO(rule_id, severity, file_path, message)
        @@ [start_line |-> start_line, end_line |-> end_line]

\* what a parser did with one record of a report: the exception it raised
\* ("none" when it returned) and the values it had for the finding
Outcome(parser, raised, severity, file_path, start_line, end_line) ==
    [parser     |-> parser,
     raised     |-> raised,
     severity   |-> severity,
     file_path  |-> file_path,
     start_line |-> start_line,
     end_line   |-> end_line]

\* sarif_reader._sev
_sev(level) ==
    LET k == Strip(Lower(OrEmpty(level)))
    IN  CASE k = S_error -> S_critical
          [] k = S_warning -> S_medium
          [] k \in {S_note, S_none} -> S_info
          [] OTHER -> S_medium

\* urllib.parse.unquote for the escape %20
RECURSIVE unquote(_)
unquote(s) ==
    IF s = <<>> THEN <<>>
    ELSE IF Len(s) >= 3 /\ SubSeq(s, 1, 3) = <<"%","2","0">>
         THEN <<" ">> \o unquote(SubSeq(s, 4, Len(s)))
         ELSE <<Head(s)>> \o unquote(Tail(s))

S_file_scheme == <<"f","i","l","e",":","/","/">>

\* urlparse(uri).scheme == "file" for the URIs of a report
IsFileUri(uri) == StartsWith(uri, S_file_scheme)

RECURSIVE FromSlash(_)
FromSlash(s) ==
    IF s = <<>> \/ Head(s) = "/" THEN s ELSE FromSlash(Tail(s))

\* urlparse(uri).path of a file:// URI: what follows the authority
UrlPath(uri) == FromSlash(SubSeq(uri, Len(S_file_scheme) + 1, Len(uri)))

\* sarif_reader._file_path for a location whose artifactLocation has no index
_file_path(uri) ==
    IF uri.kind = "str" /\ uri.s # <<>>
    THEN IF IsFileUri(uri.s)
         THEN LET path == unquote(UrlPath(uri.s))
              IN  IF Len(path) >= 3 /\ path[1] = "/" /\ path[3] = ":"
                  THEN Tail(path)
                  ELSE path
         ELSE unquote(uri.s)
    ELSE <<>>

\* sarif_reader.iter_results: the item yielded for one result
iter_results(res) ==
    [rule       |-> IF PyTruth(Get(res.ruleId))
                    THEN res.ruleId.s
                    ELSE <<"(","n","o","-","r","u","l","e",")">>,
     severity   |-> _sev(Get(res.level)),
     file       |-> _file_path(Get(res.uri)),
     start_line |-> res.startLine,
     end_line   |-> res.endLine,
     message    |-> res.message]

\* tools/ai_annotate_cli.py: load_sarif, the finding for one result
load_sarif(res) ==
    LET item == iter_results(res)
        w    == ParsedDTO(item.rule, item.severity, item.file, item.message,
                          item.start_line, item.end_line)
    IN  [w EXCEPT !.severity_ui = w.severity]

\* sarif_report_importer._norm_sev
sarif_norm_sev(level) ==
    LET s == Lower(OrEmpty(level))
    IN  IF s \notin {S_error, S_warning, S_note} THEN S_warning ELSE s

\* sarif_report_importer._extract_file_and_region
_extract_file_and_region(res) ==
    LET uri == IF PyTruth(Get(res.uri)) THEN res.uri.s
               ELSE IF PyTruth(Get(res.uriBaseId)) THEN res.uriBaseId.s
               ELSE <<>>
        start == res.startLine
        end   == IntOr(res.endLine, start)
    IN  [file_path |-> IF uri # <<>> THEN uri ELSE S_Unknown,
         start |-> start,
         end   |-> end]

\* the keyword arguments SarifReportImporter.run and CsvReportImporter.run
\* pass to WarningDTO
ImporterKwargs ==
    {"id", "title", "message", "severity", "file_path", "start_line", "end_line"}

\* SarifReportImporter.run for one result
SarifReportImporter_record(res) ==
    LET level == sarif_norm_sev(IF PyTruth(Get(res.level)) THEN res.level
                                ELSE IF res.kind.kind = "absent"
                                     THEN StrV(S_warning) ELSE res.kind)
        fr    == _extract_file_and_region(res)
    IN  Outcome("SarifReportImporter",
                IF Constructs(ImporterKwargs) THEN "none" ELSE "TypeError",
                level,
                IF fr.file_path # <<>> THEN fr.file_path ELSE S_Unknown,
                fr.start, fr.end)

\* csv_report_importer._norm_sev
csv_norm_sev(s0) ==
    LET s == Lower(Strip(OrEmpty(s0)))
    IN  IF Contains(s, <<"e","r","r">>) THEN S_error
        ELSE IF Contains(s, <<"w","a","r","n">>) THEN S_warning
        ELSE IF Contains(s, S_note) THEN S_note
        ELSE S_warning

\* pick(row, names, default=...) of CsvReportImporter.run
pick(v, default) == IF v.kind = "absent" THEN default ELSE v

\* to_int of CsvReportImporter.run
to_int(v) == IF v.kind = "numstr" THEN v.n ELSE NoLine

\* CsvReportImporter.run for one row
CsvReportImporter_record(row) ==
    LET severity   == csv_norm_sev(StrV(OrEmpty(pick(row.severity, StrV(S_warning)))))
        stripped   == Strip(OrEmpty(pick(row.file, StrV(S_Unknown))))
        file_path  == IF stripped # <<>> THEN stripped ELSE S_Unknown
        start_line == pick(row.line, StrV(<<>>))
        end_line   == pick(row.end_line, StrV(<<>>))
    IN  Outcome("CsvReportImporter",
                IF Constructs(ImporterKwargs) THEN "none" ELSE "TypeError",
                severity, file_path,
                to_int(start_line),
                IntOr(to_int(end_line), to_int(start_line)))

\* pdf_report_importer.RU_SEV_MAP
RU_SEV_MAP ==
    (S_kriticheskij :> S_critical) @@ (S_vysokij :> S_high)
    @@ (S_srednij :> S_medium) @@ (S_nizkij :> S_low)
    @@ (S_informacionnyj :> S_info)

\* pdf_report_importer.norm_sev
norm_sev(word) ==
    LET w == Lower(Strip(word))
    IN  IF w \in DOMAIN RU_SEV_MAP THEN RU_SEV_MAP[w] ELSE w

\* the keyword arguments PdfReportImporter.run passes to WarningDTO
PdfKwargs ==
    {"rule", "severity", "file_path", "start_line", "message", "code_snippet"}

\* PdfReportImporter.run for one finding block: severity is
\* WarningDTO.norm_sev(norm_sev(level_word)), and the class has no norm_sev
PdfReportImporter_record(block) ==
    Outcome("PdfReportImporter",
            IF "norm_sev" \notin WarningDTOAttrs THEN "AttributeError"
            ELSE IF Constructs(PdfKwargs) THEN "none" ELSE "TypeError",
            norm_sev(block.level_word),
            block.file_path, block.line, NoLine)

-----------------------------------------------------------------------------
(* SpecImport: one report of one record through each parser                *)

\* level strings of a report: the SARIF levels, other case and padding, a
\* word of another vocabulary, a Russian level word and an unknown word
LevelWords ==
    {S_error, S_warning, S_note, <<"E","R","R","O","R">>,
     <<" ","n","o","t","e"," ">>, S_critical, S_vysokij, <<"b","o","g","u","s">>}

SarifUris ==
    {AbsentV, StrV(<<>>),
     StrV(<<"s","r","c","/","a","p","p","/","v","i","e","w","s",".","p","y">>),
     StrV(<<"f","i","l","e",":","/","/","/","C",":","/","p","/","a","%","2","0","b",".","p","y">>)}

\* the results of a SARIF run, as far as the parsers read them
SarifResults ==
    [ruleId    : {AbsentV, StrV(<<"S","Q","L","I">>)},
     level     : {AbsentV} \cup {StrV(w) : w \in LevelWords},
     kind      : {AbsentV, StrV(<<"f","a","i","l">>)},
     uri       : SarifUris,
     uriBaseId : {AbsentV, StrV(<<"S","R","C","R","O","O","T">>)},
     startLine : {NoLine, 12},
     endLine   : {NoLine, 14},
     message   : {<<"m">>}]

\* the rows of a CSV report, by the columns the importer picks
CsvRows ==
    [severity : {AbsentV, StrV(<<>>), StrV(<<"E","r","r","o","r">>),
                 StrV(<<"W","A","R","N">>), StrV(S_critical), StrV(S_vysokij)},
     file     : {AbsentV, StrV(<<>>), StrV(<<" "," ">>),
                 StrV(<<"s","r","c","/","a",".","p","y">>)},
     line     : {AbsentV, StrV(<<>>), NumStrV(<<"1","2">>, 12), StrV(<<"x">>)},
     end_line : {AbsentV, NumStrV(<<"1","4">>, 14)}]

\* the finding blocks of a PDF report: the word after "Level", "unknown"
\* when the block has no level line
PdfBlocks ==
    [level_word : {S_unknown, <<"C","r","i","t","i","c","a","l">>,
                   <<"H","i","g","h">>, S_kriticheskij, S_vysokij, S_srednij,
                   S_nizkij, S_informacionnyj},
     file_path  : {<<"s","r","c","/","a",".","p","y">>},
     line       : {NoLine, 12}]

InitImport ==
    /\ warnings = <<>>
    /\ lastRaw = <<>>
    /\ lastRes = NoResult
    /\ phase = "new"
    /\ workers = NoWorkers
    /\ queue = NoQueue
    /\ ui = UiIdle
    /\ hist = NoHist
    /\ code = NoCode
    /\ idx = NoIdx

\* the importer returned its items, or its exception left the list as it was
Imported(record, outcome, items) ==
    /\ phase' = "imported"
    /\ lastRaw' = <<record>>
    /\ lastRes' = outcome
    /\ warnings' = IF outcome.raised = "none" THEN items ELSE warnings
    /\ TriageFrame

\* tools/ai_annotate_cli.py: load_sarif(path)
cli_load_sarif ==
    /\ phase = "new"
    /\ \E res \in SarifResults :
           LET w == load_sarif(res)
           IN  Imported(res,
                        Outcome("load_sarif", "none", w.severity, w.file_path,
                                w.start_line, w.end_line),
                        <<w>>)

\* SarifReportImporter.run(path)
SarifReportImporter_run ==
    /\ phase = "new"
    /\ \E res \in SarifResults :
           LET o == SarifReportImporter_record(res)
           IN  Imported(res, o,
                        <<ParsedDTO(OrEmpty(res.ruleId), o.severity, o.file_path,
                                    res.message, o.start_line, o.end_line)>>)

\* CsvReportImporter.run(path)
CsvReportImporter_run ==
    /\ phase = "new"
    /\ \E row \in CsvRows :
           LET o == CsvReportImporter_record(row)
           IN  Imported(row, o,
                        <<ParsedDTO(<<>>, o.severity, o.file_path, <<>>,
                                    o.start_line, o.end_line)>>)

\* PdfReportImporter.run(path)
PdfReportImporter_run ==
    /\ phase = "new"
    /\ \E block \in PdfBlocks :
           LET o == PdfReportImporter_record(block)
           IN  Imported(block, o,
                        <<ParsedDTO(<<>>, o.severity, o.file_path, <<>>,
                                    o.start_line, o.end_line)>>)

NextImport ==
    \/ cli_load_sarif
    \/ SarifReportImporter_run
    \/ CsvReportImporter_run
    \/ PdfReportImporter_run

SpecImport == InitImport /\ [][NextImport]_vars

-----------------------------------------------------------------------------
(* services/code_provider.py: find_best, and ui/main_window.py:            *)
(* _resolve_fs_path, against a disk whose files may have become unreadable *)
(* or been deleted since they were indexed                                  *)

Range(seq) == {seq[i] : i \in DOMAIN seq}

\* the absolute path of a root directory, as parts
RootDir(root) == <<<<"/">>, <<"s","r","v">>, RootBase(root)>>

\* every root directory of the disk
AllRoots == SourceRoots \cup {"projC"}

\* the text of a file as its lines: text.count("\n") + 1 = Len(FileText(p))
FileText(p) ==
    IF p.root # "projC" THEN <<<<"p", "a", "s", "s">>>>
    ELSE IF p.rel = <<<<"m", "y", "p", "k", "g">>, <<"a", ".", "p", "y">>>> THEN <<<<"k", " ", "=", " ", "1">>>>
    ELSE IF p.rel = <<<<"s", "r", "c">>, <<"p", "k", "g">>, <<"a", ".", "p", "y">>>>
         THEN <<<<"i", "m", "p", "o", "r", "t", " ", "o", "s">>,
                <<"S", "E", "C", "R", "E", "T", " ", "=", " ", "'", "a", "b", "c", "'">>,
                <<"k", " ", "=", " ", "1">>>>
    ELSE IF p.rel = <<<<"o", "t", "h", "e", "r">>, <<"a", ".", "p", "y">>>>
         THEN <<<<"S", "E", "C", "R", "E", "T", " ", "=", " ", "'", "a", "b", "c", "'">>, <<>>>>
    ELSE <<<<"p", "a", "s", "s">>>>

\* the state of the indexed files at the time of a call: "ok", "denied"
\* (reading raises) or "gone" (deleted: exists() is False, reading raises)
FileStates ==
    [{PathOf("projC", rel) : rel \in Range(DiskFiles("projC"))}
        -> {"ok", "denied", "gone"}]

\* the state of file p; the files of the other roots are as indexed
FileState(files, p) == IF p \in DOMAIN files THEN files[p] ELSE "ok"

\* list.sort(key=len, reverse=True): stable, longest first
RECURSIVE SortByLenDesc(_)
SortByLenDesc(seq) ==
    IF seq = <<>> THEN <<>>
    ELSE LET sorted == SortByLenDesc(SubSeq(seq, 1, Len(seq) - 1))
             x      == seq[Len(seq)]
             k      == Cardinality({i \in 1..Len(sorted) : Len(sorted[i]) >= Len(x)})
         IN  SubSeq(sorted, 1, k) \o <<x>> \o SubSeq(sorted, k + 1, Len(sorted))

\* CodeProvider._needles_from_snippet, for a snippet given as its lines
_needles_from_snippet(snippet) ==
    LET stripped == [i \in 1..Len(snippet) |-> Strip(snippet[i])]
        lines    == SelectSeq(stripped, LAMBDA ln : ln # <<>>)
    IN  SelectSeq(SortByLenDesc(lines), LAMBDA ln : Len(ln) >= 6)

\* find_best, lines 86-90: the length of the first needle text.find finds
RECURSIVE FirstNeedleLen(_, _)
FirstNeedleLen(text, needles) ==
    IF needles = <<>> THEN 0
    ELSE IF \E i \in 1..Len(text) : Contains(text[i], Head(needles))
         THEN Len(Head(needles))
         ELSE FirstNeedleLen(text, Tail(needles))

\* find_best, lines 83-90: the score of a readable candidate
Score(text, line, needles) ==
    (IF line # NoLine /\ line # 0 /\ 1 <= line /\ line <= Len(text) THEN 2 ELSE 0)
        + FirstNeedleLen(text, needles)

\* the loop with `score >= best_score`: the last of equal candidates wins
RECURSIVE BestAfterLastWins(_, _, _, _, _)
BestAfterLastWins(candidates, files, line, needles, n) ==
    IF n = 0 THEN [best |-> FoundNone, best_score |-> 0 - 1]
    ELSE LET prev == BestAfterLastWins(candidates, files, line, needles, n - 1)
             p    == candidates[n]
             s    == Score(FileText(p), line, needles)
         IN  IF FileState(files, p) # "ok" THEN prev
             ELSE IF s >= prev.best_score
                  THEN [best |-> FoundPath(p), best_score |-> s]
                  ELSE prev

\* find_best, lines 76-93: best and best_score after the first n candidates
RECURSIVE BestAfter(_, _, _, _, _)
BestAfter(candidates, files, line, needles, n) ==
    IF n = 0 THEN [best |-> FoundNone, best_score |-> 0 - 1]
    ELSE LET prev == BestAfter(candidates, files, line, needles, n - 1)
             p    == candidates[n]
             s    == Score(FileText(p), line, needles)
         IN  IF FileState(files, p) # "ok" THEN prev
             ELSE IF s > prev.best_score
                  THEN [best |-> FoundPath(p), best_score |-> s]
                  ELSE prev

\* CodeProvider.find_best(file_hint, line, snippet)
find_best(root, by_rel, by_name, files, file_hint, line, snippet) ==
    IF root = "none" THEN FoundNone
    ELSE LET key        == FindKey(file_hint)
             base       == IF key # <<>> THEN Basename(key) ELSE <<>>
             candidates == IF base # <<>> /\ Lower(base) \in DOMAIN by_name
                           THEN by_name[Lower(base)] ELSE <<>>
         IN  IF key \in DOMAIN by_rel THEN FoundPath(by_rel[key])
             ELSE IF candidates = <<>> THEN FoundNone
             ELSE IF Len(candidates) = 1 /\ FileState(files, candidates[1]) # "gone"
                  THEN FoundPath(candidates[1])
             ELSE LET b == BestAfter(candidates, files, line,
                                     _needles_from_snippet(snippet), Len(candidates))
                  IN  IF b.best # FoundNone THEN b.best
                      ELSE FoundPath(candidates[1])

\* exists() of a file or directory below root: parts is a path of the disk
\* that has not been deleted
Exists(root, files, parts) ==
    \E rel \in Range(DiskFiles(root)) :
        /\ FileState(files, PathOf(root, rel)) # "gone"
        /\ Len(parts) <= Len(rel)
        /\ SubSeq(rel, 1, Len(parts)) = parts

\* str.split("/")
RECURSIVE SplitSlash(_)
SplitSlash(s) ==
    IF \A i \in 1..Len(s) : s[i] # "/" THEN <<s>>
    ELSE LET i == CHOOSE k \in 1..Len(s) :
                      s[k] = "/" /\ \A j \in 1..(k - 1) : s[j] # "/"
         IN  <<SubSeq(s, 1, i - 1)>> \o SplitSlash(SubSeq(s, i + 1, Len(s)))

\* Path(s).parts without the anchor: empty and "." components are dropped
PathParts(s) ==
    SelectSeq(SplitSlash(s), LAMBDA seg : seg # <<>> /\ seg # <<".">>)

\* Path(s).is_absolute() on a POSIX system
IsAbsolute(s) == s # <<>> /\ s[1] = "/"

\* an absolute path is a path of the disk: it lies below /srv/<root>
AbsExists(files, parts) ==
    \E r \in AllRoots :
        /\ Len(parts) >= 2
        /\ SubSeq(parts, 1, 2) = Tail(RootDir(r))
        /\ Exists(r, files, SubSeq(parts, 3, Len(parts)))

AbsPath(parts) ==
    LET r == CHOOSE r \in AllRoots : SubSeq(parts, 1, 2) = Tail(RootDir(r))
    IN  PathOf(r, SubSeq(parts, 3, Len(parts)))

\* the files and directories below root, deleted ones left out
Entries(root, files) ==
    UNION {{SubSeq(rel, 1, n) : n \in 1..Len(rel)} :
               rel \in {f \in Range(DiskFiles(root)) :
                            FileState(files, PathOf(root, f)) # "gone"}}

\* what root.rglob(name) yields, in some order
RglobMatches(root, files, name) ==
    {parts \in Entries(root, files) : parts[Len(parts)] = name}

\* the orders in which rglob can yield them (the order of os.scandir)
RglobOrders(root, files, name) ==
    LET M == RglobMatches(root, files, name)
    IN  {order \in [1..Cardinality(M) -> M] :
            \A i, j \in 1..Cardinality(M) : i # j => order[i] # order[j]}

\* _resolve_fs_path, lines 517-527: the number of trailing parts on which
\* target and candidate agree
RECURSIVE TailScore(_, _)
TailScore(target_parts, cand_parts) ==
    IF target_parts = <<>> \/ cand_parts = <<>> THEN 0
    ELSE IF Lower(target_parts[Len(target_parts)]) = Lower(cand_parts[Len(cand_parts)])
         THEN 1 + TailScore(SubSeq(target_parts, 1, Len(target_parts) - 1),
                            SubSeq(cand_parts, 1, Len(cand_parts) - 1))
         ELSE 0

\* _resolve_fs_path, lines 518-529: best after the first n candidates
RECURSIVE BestTailAfter(_, _, _)
BestTailAfter(target_parts, order, n) ==
    IF n = 0 THEN [best |-> <<>>, best_score |-> 0 - 1]
    ELSE LET prev == BestTailAfter(target_parts, order, n - 1)
             s    == TailScore(target_parts, SplitSlash(Lower(as_posix(order[n]))))
         IN  IF s > prev.best_score
             THEN [best |-> order[n], best_score |-> s]
             ELSE prev

\* MainWindow._resolve_fs_path(w) for w.file_path = hint, with rglob yielding
\* its matches in the given order
_resolve_fs_path(root, files, order, hint) ==
    LET raw    == Strip(hint)
        posix  == SubSeq(ReplaceBackslash(raw), 1, Len(raw))
        abs    == IsAbsolute(posix)
        parts  == PathParts(posix)
        target == Lower((IF abs THEN <<"/">> ELSE <<>>) \o as_posix(parts))
        hits   == {i \in 1..Len(order) : EndsWith(Lower(as_posix(order[i])), target)}
    IN  IF root = "none" \/ raw = <<>> THEN FoundNone
        ELSE IF abs /\ AbsExists(files, parts) THEN FoundPath(AbsPath(parts))
        ELSE IF ~abs /\ Exists(root, files, parts) THEN FoundPath(PathOf(root, parts))
        ELSE IF /\ ~abs
                /\ parts # <<>>
                /\ Lower(parts[1]) = Lower(RootBase(root))
                /\ Exists(root, files, Tail(parts))
             THEN FoundPath(PathOf(root, Tail(parts)))
        ELSE IF parts = <<>> THEN FoundNone
        ELSE IF hits # {}
             THEN FoundPath(PathOf(root,
                      order[CHOOSE i \in hits : \A j \in hits : i <= j]))
        ELSE IF order = <<>> THEN FoundNone
        ELSE FoundPath(PathOf(root,
                 BestTailAfter((IF abs THEN <<<<"/">>>> ELSE <<>>) \o parts,
                               order, Len(order)).best))

-----------------------------------------------------------------------------
(* SpecResolve: a source root is bound (or not) and one finding is         *)
(* resolved by find_best or by _resolve_fs_path                             *)

\* the file hints of the findings to resolve
ResolveHints ==
    {<<>>,
     <<"p", "k", "g", "/", "a", ".", "p", "y">>,
     <<"a", ".", "p", "y">>,
     <<"x", "/", "b", ".", "p", "y">>,
     <<"S","r","c","\\","p","k","g","\\","A",".","p","y">>,
     <<"p", "r", "o", "j", "C", "/", "o", "t", "h", "e", "r", "/", "a", ".", "p", "y">>,
     <<"/", "s", "r", "v", "/", "p", "r", "o", "j", "C", "/", "s", "r", "c", "/", "p", "k", "g", "/", "a", ".", "p", "y">>,
     <<"/", "s", "r", "v", "/", "p", "r", "o", "j", "C", "/", "n", "o", "p", "e", ".", "p", "y">>}

ResolveLines == {NoLine, 1, 3}

ResolveSnippets ==
    {<<>>,
     <<<<"S", "E", "C", "R", "E", "T", " ", "=", " ", "'", "a", "b", "c", "'">>>>,
     <<<<"k", " ", "=", " ", "1">>, <<" ", " ", "S", "E", "C", "R", "E", "T", " ", "=", " ", "'", "a", "b", "c", "'", " ", " ">>,
       <<"i", "m", "p", "o", "r", "t", " ", "o", "s">>>>}

\* rel.name of the hint
HintName(hint) ==
    LET raw   == Strip(hint)
        parts == PathParts(SubSeq(ReplaceBackslash(raw), 1, Len(raw)))
    IN  IF parts = <<>> THEN <<>> ELSE parts[Len(parts)]

ResolveFrame == UNCHANGED <<warnings, lastRaw, lastRes, workers, queue, ui, hist>>

InitResolve ==
    /\ warnings = <<>>
    /\ lastRaw = <<>>
    /\ lastRes = NoResult
    /\ phase = "new"
    /\ workers = NoWorkers
    /\ queue = NoQueue
    /\ ui = UiIdle
    /\ hist = NoHist
    /\ code = NoCode
    /\ idx = NoIdx

\* _pick_source_root: self.source_root = Path(dir_); self.code.set_root(...)
_pick_source_root ==
    /\ phase = "new"
    /\ \E root \in AllRoots :
          code' = [root    |-> root,
                   by_rel  |-> ByRelAfter(root, Len(WalkFiles(root))),
                   by_name |-> ByNameAfter(root, Len(WalkFiles(root)))]
    /\ phase' = "bound"
    /\ UNCHANGED idx
    /\ ResolveFrame

\* one call of a resolver and what it returned
Resolved(call, hint, line, snippet, files, order, result) ==
    [call    |-> call,
     hint    |-> hint,
     line    |-> line,
     snippet |-> snippet,
     files   |-> files,
     order   |-> order,
     result  |-> result]

find_best_call ==
    /\ phase \in {"new", "bound"}
    /\ \E hint \in ResolveHints, line \in ResolveLines,
          snippet \in ResolveSnippets, files \in FileStates :
          idx' = Resolved("find_best", hint, line, snippet, files, <<>>,
                          find_best(code.root, code.by_rel, code.by_name,
                                    files, hint, line, snippet))
    /\ phase' = "resolved"
    /\ UNCHANGED code
    /\ ResolveFrame

_resolve_fs_path_call ==
    /\ phase \in {"new", "bound"}
    /\ \E hint \in ResolveHints, files \in FileStates :
          \E order \in IF code.root = "none" THEN {<<>>}
                        ELSE RglobOrders(code.root, files, HintName(hint)) :
              idx' = Resolved("_resolve_fs_path", hint, NoLine, <<>>, files, order,
                              _resolve_fs_path(code.root, files, order, hint))
    /\ phase' = "resolved"
    /\ UNCHANGED code
    /\ ResolveFrame

NextResolve ==
    \/ _pick_source_root
    \/ find_best_call
    \/ _resolve_fs_path_call

SpecResolve == InitResolve /\ [][NextResolve]_vars

-----------------------------------------------------------------------------
(* SpecIndex: MainWindow._pick_source_root -> CodeProvider.set_root in the *)
(* main thread, statement by statement, while the worker thread of         *)
(* _AIWorker.run calls CodeProvider.find                                   *)

IndexFrame == UNCHANGED <<warnings, lastRaw, lastRes, phase, workers, queue, ui, hist>>

InitIndex ==
    /\ warnings = <<>>
    /\ lastRaw = <<>>
    /\ lastRes = NoResult
    /\ phase = "new"
    /\ workers = NoWorkers
    /\ queue = NoQueue
    /\ ui = UiIdle
    /\ hist = NoHist
    /\ code = NoCode
    /\ idx = NoIdx

\* the roots a running find call overlaps with (ghost)
RootsDuring(root) ==
    IF idx.resolver.pc \in {"idle", "returned"}
    THEN idx.resolver.roots
    ELSE idx.resolver.roots \cup {root}

\* set_root, line 31: self.root = Path(root)
set_root ==
    /\ idx.setter.pc = "idle"
    /\ \E root \in SourceRoots :
          /\ code' = [code EXCEPT !.root = root]
          /\ idx' = [idx EXCEPT !.setter = [pc |-> "clear_rel", n |-> 0],
                                !.resolver.roots = RootsDuring(root)]
    /\ IndexFrame

\* _reindex, line 99: self._by_rel.clear()
_reindex_clear_rel ==
    /\ idx.setter.pc = "clear_rel"
    /\ code' = [code EXCEPT !.by_rel = EmptyDict]
    /\ idx' = [idx EXCEPT !.setter.pc = "clear_name"]
    /\ IndexFrame

\* _reindex, lines 100-105: self._by_name.clear(), then the walk begins
_reindex_clear_name ==
    /\ idx.setter.pc = "clear_name"
    /\ code' = [code EXCEPT !.by_name = EmptyDict]
    /\ idx' = [idx EXCEPT !.setter =
                  IF WalkFiles(code.root) = <<>>
                  THEN [pc |-> "idle", n |-> 0]
                  ELSE [pc |-> "add_rel", n |-> 1]]
    /\ IndexFrame

\* _reindex, lines 111-113: self._by_rel[rel] = p
_reindex_add_rel ==
    /\ idx.setter.pc = "add_rel"
    /\ LET rel == WalkFiles(code.root)[idx.setter.n]
       IN  code' = [code EXCEPT !.by_rel =
                       DictSet(@, RelKey(rel), PathOf(code.root, rel))]
    /\ idx' = [idx EXCEPT !.setter.pc = "add_name"]
    /\ IndexFrame

\* _reindex, line 114: self._by_name.setdefault(fn.lower(), []).append(p)
_reindex_add_name ==
    /\ idx.setter.pc = "add_name"
    /\ LET rel == WalkFiles(code.root)[idx.setter.n]
       IN  code' = [code EXCEPT !.by_name =
                       DictAppend(@, NameKey(rel), PathOf(code.root, rel))]
    /\ idx' = [idx EXCEPT !.setter =
                  IF idx.setter.n = Len(WalkFiles(code.root))
                  THEN [pc |-> "idle", n |-> 0]
                  ELSE [pc |-> "add_rel", n |-> idx.setter.n + 1]]
    /\ IndexFrame

\* find, lines 42-44: the guard on root and hint, then the key
find_enter ==
    /\ idx.resolver.pc \in {"idle", "returned"}
    /\ \E hint \in FileHints :
          idx' = [idx EXCEPT !.resolver =
                     IF code.root = "none" \/ hint = <<>>
                     THEN [pc |-> "returned", hint |-> hint, key |-> <<>>,
                           roots |-> {code.root}, result |-> FoundNone]
                     ELSE [pc |-> "rel_in", hint |-> hint, key |-> FindKey(hint),
                           roots |-> {code.root}, result |-> FoundNone]]
    /\ UNCHANGED code
    /\ IndexFrame

\* find, line 45: if key in self._by_rel
find_rel_in ==
    /\ idx.resolver.pc = "rel_in"
    /\ idx' = [idx EXCEPT !.resolver.pc =
                  IF idx.resolver.key \in DOMAIN code.by_rel
                  THEN "rel_get" ELSE "name_get"]
    /\ UNCHANGED code
    /\ IndexFrame

\* find, line 46: return self._by_rel[key]
find_rel_get ==
    /\ idx.resolver.pc = "rel_get"
    /\ idx' = [idx EXCEPT !.resolver.pc = "returned",
                          !.resolver.result =
                              IF idx.resolver.key \in DOMAIN code.by_rel
                              THEN FoundPath(code.by_rel[idx.resolver.key])
                              ELSE FoundKeyError]
    /\ UNCHANGED code
    /\ IndexFrame

\* find, lines 47-49: the lookup by base name
find_name_get ==
    /\ idx.resolver.pc = "name_get"
    /\ LET base == Lower(Basename(idx.resolver.key))
           cand == IF base \in DOMAIN code.by_name THEN code.by_name[base] ELSE <<>>
       IN  idx' = [idx EXCEPT !.resolver.pc = "returned",
                              !.resolver.result =
                                  IF cand # <<>> THEN FoundPath(cand[1])
                                  ELSE FoundNone]
    /\ UNCHANGED code
    /\ IndexFrame

NextIndex ==
    \/ set_root
    \/ _reindex_clear_rel
    \/ _reindex_clear_name
    \/ _reindex_add_rel
    \/ _reindex_add_name
    \/ find_enter
    \/ find_rel_in
    \/ find_rel_get
    \/ find_name_get

SpecIndex == InitIndex /\ [][NextIndex]_vars

-----------------------------------------------------------------------------
(* SpecBatch: a batch triage run.  The worker thread executes              *)
(* _AIWorker.run statement by statement; its signals are queued to the     *)
(* main thread, which runs one slot at a time; the user starts the run     *)
(* and may press Cancel                                                    *)

BatchFrame == UNCHANGED <<lastRaw, lastRes, phase, code, idx>>

InitBatch ==
    /\ warnings = [k \in 1..NumFindings |-> ImportedFinding(k)]
    /\ lastRaw = <<>>
    /\ lastRes = NoResult
    /\ phase = "new"
    /\ workers = NoWorkers
    /\ queue = NoQueue
    /\ ui = UiIdle
    /\ hist = NewRun
    /\ code = NoCode
    /\ idx = NoIdx

MainIdle == ui.handler.pc = "idle"

\* _ai_clicked_whole -> _ai_run(list(self._all))
_ai_clicked_whole ==
    /\ MainIdle
    /\ ui.acts_enabled
    /\ ui.error_boxes = 0
    /\ Len(workers) < MaxRuns
    /\ warnings # <<>>
    /\ ui' = [_toggle_ai_actions(ui, FALSE) EXCEPT
                 !.progress_open = TRUE,
                 !.progress_value = 0,
                 !.progress_max = Len(warnings)]
    /\ workers' = Append(workers, NewWorker([k \in 1..Len(warnings) |-> k]))
    /\ hist' = NewRun
    /\ UNCHANGED <<warnings, queue>>
    /\ BatchFrame

\* run, lines 97-98: self.started.emit(total)
run_started(r) ==
    /\ workers[r].pc = "start"
    /\ workers' = [workers EXCEPT ![r].pc = "loop"]
    /\ queue' = Append(queue, Signal("started", r, Len(workers[r].ws), 0, NoResult))
    /\ UNCHANGED <<warnings, ui, hist>>
    /\ BatchFrame

\* run, lines 99-101: the next warning of the list, unless _stop is set
run_next(r) ==
    LET wk == workers[r]
    IN  /\ wk.pc = "loop"
        /\ workers' = [workers EXCEPT ![r] =
              IF wk.i = Len(wk.ws) \/ LoopBreaks(wk)
              THEN [wk EXCEPT !.pc = "finish"]
              ELSE [wk EXCEPT !.pc = "annotate", !.i = wk.i + 1]]
        /\ UNCHANGED <<warnings, queue, ui, hist>>
        /\ BatchFrame

\* run, lines 103-146: annotate_one returns a result (the file text the
\* worker looks up before the call is not passed to annotate_one)
run_annotate_returns(r) ==
    LET wk == workers[r]
        w  == wk.ws[wk.i]
    IN  /\ wk.pc = "annotate"
        /\ \E raw \in BatchAnswers :
              workers' = [workers EXCEPT ![r] =
                  [wk EXCEPT !.pc = "emit",
                             !.res = AnnotateWarning(warnings[w], raw)]]
        /\ hist' = [hist EXCEPT !.submitted = @ \cup {w},
                                !.produced = @ \cup {w}]
        /\ UNCHANGED <<warnings, queue, ui>>
        /\ BatchFrame

\* run, lines 138-147: client.generate raises inside annotate_one
run_annotate_raises(r) ==
    LET wk == workers[r]
        w  == wk.ws[wk.i]
    IN  /\ wk.pc = "annotate"
        /\ workers' = [workers EXCEPT ![r].pc = "except"]
        /\ hist' = [hist EXCEPT !.submitted = @ \cup {w},
                                !.raised = @ \cup {w}]
        /\ UNCHANGED <<warnings, queue, ui>>
        /\ BatchFrame

\* run, lines 147-149: the handler of the exception
run_except(r) ==
    LET wk == workers[r]
    IN  /\ wk.pc = "except"
        /\ queue' = Append(queue, Signal("error", r, wk.i, wk.ws[wk.i], NoResult))
        /\ workers' = [workers EXCEPT ![r] = OnAnnotateError(wk)]
        /\ UNCHANGED <<warnings, ui, hist>>
        /\ BatchFrame

\* run, line 151: self.progressed.emit(i, w, res)
run_emit(r) ==
    LET wk == workers[r]
    IN  /\ wk.pc = "emit"
        /\ queue' = Append(queue, Signal("progressed", r, wk.i, wk.ws[wk.i], wk.res))
        /\ workers' = [workers EXCEPT ![r] = [wk EXCEPT !.pc = "loop", !.res = NoResult]]
        /\ UNCHANGED <<warnings, ui, hist>>
        /\ BatchFrame

\* run, line 153: self.finished.emit()
run_finished(r) ==
    /\ workers[r].pc = "finish"
    /\ queue' = Append(queue, Signal("finished", r, 0, 0, NoResult))
    /\ workers' = [workers EXCEPT ![r].pc = "done"]
    /\ hist' = [hist EXCEPT !.finished_emitted = @ + 1]
    /\ UNCHANGED <<warnings, ui>>
    /\ BatchFrame

\* the main thread takes the next queued signal
Delivered(sig) == MainIdle /\ queue # <<>> /\ Head(queue).sig = sig

\* started -> lambda total: self._ai_progress.setMaximum(total)
_ai_started ==
    /\ Delivered("started")
    /\ ui' = [ui EXCEPT !.progress_max = Head(queue).i]
    /\ queue' = Tail(queue)
    /\ UNCHANGED <<warnings, workers, hist>>
    /\ BatchFrame

\* _ai_progressed, line 662: self._ai_progress.setValue(i)
_ai_progressed_setValue ==
    /\ Delivered("progressed")
    /\ ui' = [ui EXCEPT !.progress_value = Head(queue).i,
                        !.handler = [pc |-> "coerce", w |-> Head(queue).w,
                                     res |-> Head(queue).res]]
    /\ queue' = Tail(queue)
    /\ UNCHANGED <<warnings, workers, hist>>
    /\ BatchFrame

\* field f of warning w is written during the executing slot
WriteField(f, next_pc) ==
    LET w == ui.handler.w
        a == _apply_ai_result(warnings[w], ui.handler.res)
    IN  /\ warnings' = [warnings EXCEPT ![w][f] = a[f]]
        /\ hist' = [hist EXCEPT !.written[w] = @ \cup {f}]
        /\ ui' = [ui EXCEPT !.handler =
                     IF next_pc = "idle" THEN HandlerIdle
                     ELSE [ui.handler EXCEPT !.pc = next_pc]]
        /\ UNCHANGED <<workers, queue>>
        /\ BatchFrame

\* _ai_progressed, line 663: res = self._coerce_ai_result(res_obj); an
\* exception in it ends the slot
_ai_progressed_coerce ==
    /\ ui.handler.pc = "coerce"
    /\ LET c == _coerce_ai_result(ui.handler.res)
       IN  ui' = [ui EXCEPT !.handler =
                     IF c.raised THEN HandlerIdle
                     ELSE [pc |-> "status", w |-> ui.handler.w, res |-> c]]
    /\ hist' = [hist EXCEPT !.written[ui.handler.w] = {}]
    /\ UNCHANGED <<warnings, workers, queue>>
    /\ BatchFrame

\* _apply_ai_result, lines 744-745: w.status = status_ru
_apply_status == ui.handler.pc = "status" /\ WriteField("status", "severity_ui")

\* _apply_ai_result, lines 747-750: w.severity_ui = sev
_apply_severity_ui == ui.handler.pc = "severity_ui" /\ WriteField("severity_ui", "comment")

\* _apply_ai_result, lines 752-754: w.comment = ...
_apply_comment == ui.handler.pc = "comment" /\ WriteField("comment", "ml_confidence")

\* _apply_ai_result, lines 756-760: w.ml_confidence = ...; the rest of
\* _ai_progressed updates the view and the exports
_apply_ml_confidence == ui.handler.pc = "ml_confidence" /\ WriteField("ml_confidence", "idle")

\* _ai_error: QMessageBox.warning opens a modal box; queued signals are
\* still delivered while it is open
_ai_error ==
    /\ Delivered("error")
    /\ ui' = [ui EXCEPT !.error_boxes = @ + 1]
    /\ queue' = Tail(queue)
    /\ UNCHANGED <<warnings, workers, hist>>
    /\ BatchFrame

\* the user dismisses the message box of _ai_error
error_box_closed ==
    /\ MainIdle
    /\ ui.error_boxes > 0
    /\ ui' = [ui EXCEPT !.error_boxes = @ - 1]
    /\ UNCHANGED <<warnings, workers, queue, hist>>
    /\ BatchFrame

\* a slot that only closes the progress dialog (not what the code does)
_ai_finished_closing ==
    /\ Delivered("finished")
    /\ ui' = [ui EXCEPT !.progress_open = FALSE]
    /\ hist' = [hist EXCEPT !.finished_handled = TRUE]
    /\ queue' = Tail(queue)
    /\ UNCHANGED <<warnings, workers>>
    /\ BatchFrame

\* _ai_finished: closes the progress dialog and re-enables the AI actions
_ai_finished ==
    /\ Delivered("finished")
    /\ ui' = [_toggle_ai_actions(ui, TRUE) EXCEPT !.progress_open = FALSE]
    /\ hist' = [hist EXCEPT !.finished_handled = TRUE]
    /\ queue' = Tail(queue)
    /\ UNCHANGED <<warnings, workers>>
    /\ BatchFrame

\* the findings whose result is produced but not yet completely applied
PendingResults == {k \in hist.produced : hist.written[k] # DispositionFields}

\* the finding the worker is working on, 0 when it is between findings
InFlight(wk) == IF wk.pc \in {"annotate", "except", "emit"} THEN wk.ws[wk.i] ELSE 0

\* _ai_cancel discarding the queued results (not what the code does)
_ai_cancel_discarding ==
    /\ MainIdle
    /\ ui.progress_open
    /\ ui.error_boxes = 0
    /\ workers # <<>>
    /\ workers' = [workers EXCEPT ![Len(workers)].stop = TRUE]
    /\ queue' = SelectSeq(queue, LAMBDA s : s.sig # "progressed")
    /\ hist' = IF hist.cancelled THEN hist
               ELSE [hist EXCEPT !.cancelled = TRUE,
                                 !.inflight_at_cancel = InFlight(workers[Len(workers)]),
                                 !.pending_at_cancel = PendingResults]
    /\ UNCHANGED <<warnings, ui>>
    /\ BatchFrame

\* _ai_cancel (the Cancel button of the progress dialog): self._ai_worker.stop()
_ai_cancel ==
    /\ MainIdle
    /\ ui.progress_open
    /\ ui.error_boxes = 0
    /\ workers # <<>>
    /\ workers' = [workers EXCEPT ![Len(workers)].stop = TRUE]
    /\ hist' = IF hist.cancelled THEN hist
               ELSE [hist EXCEPT !.cancelled = TRUE,
                                 !.inflight_at_cancel = InFlight(workers[Len(workers)]),
                                 !.pending_at_cancel = PendingResults]
    /\ UNCHANGED <<warnings, queue, ui>>
    /\ BatchFrame

WorkerStep(r) ==
    \/ run_started(r)
    \/ run_next(r)
    \/ run_annotate_returns(r)
    \/ run_annotate_raises(r)
    \/ run_except(r)
    \/ run_emit(r)
    \/ run_finished(r)

NextBatch ==
    \/ _ai_clicked_whole
    \/ \E r \in DOMAIN workers : WorkerStep(r)
    \/ _ai_started
    \/ _ai_progressed_setValue
    \/ _ai_progressed_coerce
    \/ _apply_status
    \/ _apply_severity_ui
    \/ _apply_comment
    \/ _apply_ml_confidence
    \/ _ai_error
    \/ error_box_closed
    \/ _ai_finished
    \/ _ai_cancel

SpecBatch == InitBatch /\ [][NextBatch]_vars

\* the worker thread is scheduled, and the oracle call returns or raises
\* (the HTTP request carries a timeout)
FairWorkerStep == \E r \in DOMAIN workers : WorkerStep(r)

SpecBatchFair == SpecBatch /\ WF_vars(FairWorkerStep)

-----------------------------------------------------------------------------
(* SpecReport: whole reports through the SARIF loaders and through the     *)
(* import services of services/use_cases.py with their repository          *)
(* (data/repositories/in_memory_repository.py).  An entry of results[] is  *)
(*   shape      "dict" (a JSON object), "str" or "none" (a string, null)   *)
(*   ruleId     absent or a string                                         *)
(*   rule       absent, an object {"id": ...} or (wrong type) a string     *)
(*   level      absent, a string or (wrong type) a number                  *)
(*   message    "dict" ({"text": ...}), "absent" or (wrong type) "str"     *)
(*   locations  "list" (one location), "absent" or (wrong type) "str"      *)

Entry(shape, ruleId, rule, level, message, locations) ==
    [shape |-> shape, ruleId |-> ruleId, rule |-> rule, level |-> level,
     message |-> message, locations |-> locations]

\* entries whose fields all have the types of SARIF 2.1.0
WellFormedEntries ==
    {Entry("dict", ruleId, rule, level, "dict", locations) :
        ruleId \in {AbsentV, StrV(<<"S","Q","L","I">>)},
        rule \in {AbsentV, ObjV},
        level \in {AbsentV, StrV(S_error)},
        locations \in {"list", "absent"}}

\* entries that are not an object, or with one field of the wrong type
MalformedEntries ==
    {Entry("str", AbsentV, AbsentV, AbsentV, "absent", "absent"),
     Entry("none", AbsentV, AbsentV, AbsentV, "absent", "absent"),
     Entry("dict", AbsentV, StrV(<<"r">>), StrV(S_error), "dict", "list"),
     Entry("dict", StrV(<<"S","Q","L","I">>), StrV(<<"r">>), StrV(S_error), "dict", "list"),
     Entry("dict", StrV(<<"S","Q","L","I">>), AbsentV, NumV(<<"2">>, 2), "dict", "list"),
     Entry("dict", StrV(<<"S","Q","L","I">>), AbsentV, StrV(S_error), "str", "list"),
     Entry("dict", StrV(<<"S","Q","L","I">>), AbsentV, StrV(S_error), "dict", "str")}

\* number of entries of results[]
MaxRecords == 2

SeqsUpTo(S, n) == UNION {[1..m -> S] : m \in 0..n}

\* the file of a SARIF report: text that json.loads rejects, or a document
\* with one run
SarifReports ==
    {[container |-> "invalid", results |-> <<>>]}
        \cup {[container |-> "ok", results |-> rs] :
                 rs \in SeqsUpTo(WellFormedEntries \cup MalformedEntries, MaxRecords)}

\* the result as the one-record parsers read it
AsResult(en) ==
    [ruleId    |-> IF PyTruth(Get(en.ruleId)) THEN en.ruleId
                   ELSE IF en.rule.kind = "obj" THEN StrV(<<"r","u","l","e","-","i","d">>)
                   ELSE AbsentV,
     level     |-> en.level,
     kind      |-> AbsentV,
     uri       |-> IF en.locations = "list"
                   THEN StrV(<<"s","r","c","/","a",".","p","y">>) ELSE AbsentV,
     uriBaseId |-> AbsentV,
     startLine |-> IF en.locations = "list" THEN 12 ELSE NoLine,
     endLine   |-> NoLine,
     message   |-> IF en.message = "dict" THEN <<"m">> ELSE <<>>]

\* the exception the body of the loop of sarif_reader.iter_results raises
\* for one entry, "none" when it yields an item
iter_results_raises(en) ==
    IF en.shape # "dict" THEN "AttributeError"
    ELSE IF ~PyTruth(Get(en.ruleId)) /\ en.rule.kind = "str" /\ PyTruth(en.rule)
    THEN "AttributeError"
    ELSE IF en.level.kind = "num" /\ PyTruth(en.level) THEN "AttributeError"
    ELSE IF en.message = "str" THEN "AttributeError"
    ELSE "none"

\* the exception the body of the loop of SarifReportImporter.run raises for
\* one entry, "none" when it appends a finding
SarifReportImporter_raises(en) ==
    IF en.shape # "dict" THEN "AttributeError"
    ELSE IF ~PyTruth(Get(en.ruleId)) /\ en.rule.kind = "str" THEN "AttributeError"
    ELSE IF en.level.kind = "num" /\ PyTruth(en.level) THEN "AttributeError"
    ELSE IF en.locations = "str" THEN "AttributeError"
    ELSE SarifReportImporter_record(AsResult(en)).raised

\* a parser over the entries in order, outs[k] being what the body of the
\* loop does with entry k: the items collected so far are lost when the
\* body raises
RECURSIVE ParseFrom(_, _)
ParseFrom(outs, k) ==
    IF k > Len(outs) THEN [raised |-> "none", items |-> <<>>]
    ELSE IF outs[k].raised # "none"
    THEN [raised |-> outs[k].raised, items |-> <<>>]
    ELSE LET rest == ParseFrom(outs, k + 1)
         IN  IF rest.raised # "none" THEN rest
             ELSE [raised |-> "none", items |-> <<outs[k].item>> \o rest.items]

\* json.loads, then the loop over runs[].results[]
ParseReport(report, outs) ==
    IF report.container # "ok"
    THEN [raised |-> "JSONDecodeError", items |-> <<>>]
    ELSE ParseFrom(outs, 1)

\* tools/ai_annotate_cli.py load_sarif(path) over sarif_reader.iter_results
load_sarif_all(report) ==
    ParseReport(report,
        [k \in 1..Len(report.results) |->
            LET en == report.results[k]
            IN  [raised |-> iter_results_raises(en),
                 item   |-> IF iter_results_raises(en) = "none"
                            THEN load_sarif(AsResult(en)) ELSE <<>>]])

\* the finding SarifReportImporter.run appends for one entry
SarifReportImporter_item(en) ==
    LET o == SarifReportImporter_record(AsResult(en))
    IN  ParsedDTO(OrEmpty(AsResult(en).ruleId), o.severity, o.file_path,
                  AsResult(en).message, o.start_line, o.end_line)

\* SarifReportImporter.run(path)
SarifReportImporter_all(report) ==
    ParseReport(report,
        [k \in 1..Len(report.results) |->
            LET en == report.results[k]
            IN  [raised |-> SarifReportImporter_raises(en),
                 item   |-> IF SarifReportImporter_raises(en) = "none"
                            THEN SarifReportImporter_item(en) ELSE <<>>]])

\* the rows of a CSV file with a header line
CsvReports ==
    SeqsUpTo({row \in CsvRows : /\ row.severity \in {AbsentV, StrV(S_critical)}
                               /\ row.file # AbsentV
                               /\ row.line.kind = "numstr"
                               /\ row.end_line = AbsentV},
             MaxRecords)

\* CsvReportImporter.run(path)
CsvReportImporter_all(rows) ==
    ParseFrom([k \in 1..Len(rows) |->
                  LET o == CsvReportImporter_record(rows[k])
                  IN  [raised |-> o.raised,
                       item   |-> IF o.raised = "none"
                                  THEN ParsedDTO(<<>>, o.severity, o.file_path,
                                                 <<>>, o.start_line, o.end_line)
                                  ELSE <<>>]],
              1)

\* the methods of InMemoryRepository
InMemoryRepositoryMethods == {"add", "add_many", "clear", "list_all"}

\* what a call returned or raised
Returned(op, raised, items, n) ==
    [op |-> op, raised |-> raised, items |-> items, n |-> n]

\* ImportSarifService.run / ImportCsvService.run after the importer:
\* items = self._imp.run(path); self.repo.replace_all(items); return len(items)
ServiceRun(op, report, parsed) ==
    /\ lastRaw' = report
    /\ phase' = "imported"
    /\ IF parsed.raised # "none"
       THEN /\ lastRes' = Returned(op, parsed.raised, <<>>, 0)
            /\ UNCHANGED warnings
       ELSE IF "replace_all" \notin InMemoryRepositoryMethods
       THEN /\ lastRes' = Returned(op, "AttributeError", <<>>, 0)
            /\ UNCHANGED warnings
       ELSE /\ lastRes' = Returned(op, "none", parsed.items, Len(parsed.items))
            /\ warnings' = parsed.items
    /\ TriageFrame

InitReport ==
    /\ warnings = <<>>
    /\ lastRaw = <<>>
    /\ lastRes = NoResult
    /\ phase = "new"
    /\ workers = NoWorkers
    /\ queue = NoQueue
    /\ ui = UiIdle
    /\ hist = NoHist
    /\ code = NoCode
    /\ idx = NoIdx

\* InMemoryRepository.add_many(items): the findings of an earlier import
InMemoryRepository_add_many ==
    /\ phase = "new"
    /\ \E n \in 1..2 :
           warnings' = warnings \o [k \in 1..n |-> ImportedFinding(k)]
    /\ phase' = "filled"
    /\ UNCHANGED <<lastRaw, lastRes>>
    /\ TriageFrame

\* InMemoryRepository.list_all(): list(self._items)
InMemoryRepository_list_all ==
    /\ phase \in {"new", "filled"}
    /\ lastRes' = Returned("list_all", "none", warnings, Len(warnings))
    /\ phase' = "listed"
    /\ UNCHANGED <<warnings, lastRaw>>
    /\ TriageFrame

\* tools/ai_annotate_cli.py: items = load_sarif(args.sarif)
load_sarif_report ==
    /\ phase = "new"
    /\ \E report \in SarifReports :
           LET parsed == load_sarif_all(report)
           IN  /\ lastRes' = Returned("load_sarif", parsed.raised, parsed.items,
                                      Len(parsed.items))
               /\ lastRaw' = report
    /\ phase' = "parsed"
    /\ UNCHANGED warnings
    /\ TriageFrame

\* SarifReportImporter().run(path)
SarifReportImporter_report ==
    /\ phase = "new"
    /\ \E report \in SarifReports :
           LET parsed == SarifReportImporter_all(report)
           IN  /\ lastRes' = Returned("SarifReportImporter", parsed.raised,
                                      parsed.items, Len(parsed.items))
               /\ lastRaw' = report
    /\ phase' = "parsed"
    /\ UNCHANGED warnings
    /\ TriageFrame

\* ImportSarifService(repo).run(path)
ImportSarifService_run ==
    /\ phase \in {"new", "filled"}
    /\ \E report \in SarifReports :
           ServiceRun("ImportSarifService", report, SarifReportImporter_all(report))

\* ImportCsvService(repo).run(path)
ImportCsvService_run ==
    /\ phase \in {"new", "filled"}
    /\ \E rows \in CsvReports :
           ServiceRun("ImportCsvService", [container |-> "ok", results |-> rows],
                      CsvReportImporter_all(rows))

NextReport ==
    \/ InMemoryRepository_add_many
    \/ InMemoryRepository_list_all
    \/ load_sarif_report
    \/ SarifReportImporter_report
    \/ ImportSarifService_run
    \/ ImportCsvService_run

SpecReport == InitReport /\ [][NextReport]_vars

-----------------------------------------------------------------------------
(* SpecPdf: PdfReportImporter.run over the lines of the extracted text,    *)
(* one loop iteration per step.  A line is one of the texts below; for     *)
(* each the table gives which patterns of pdf_report_importer.py match it  *)
(* (the file of the findings has the extension .py)                        *)
(*   title        SQL Injection (CWE-89)                                    *)
(*   description  Description                                               *)
(*   anchor       src/app/views.py:12                                       *)
(*   loose        Note:12                                                   *)
(*   blank        (empty line)                                              *)
(*   level        Level High                                                *)
(*   trace        Trace                                                     *)
(*   example      Example                                                   *)
(*   code         12: x = 1                                                 *)
(*   free         cursor.execute(q)                                         *)
(*   prose        User input reaches the query                              *)

LineTexts ==
    {"title", "description", "anchor", "loose", "blank", "level", "trace",
     "example", "code", "free", "prose"}

\* PATH_LINE_RE.match(s)
PATH_LINE_RE(s) == s \in {"anchor", "loose"}

\* STRICT_PATH_RE.search(path) for the path of an anchor line
STRICT_PATH_RE(s) == s = "anchor"

\* BLOCK_TITLE_RE.match(s)
BLOCK_TITLE_RE(s) == s = "title"

\* DESCRIPTION_ANCHOR_RE.match(s)
DESCRIPTION_ANCHOR_RE(s) == s = "description"

\* not s.strip()
IsBlank(s) == s = "blank"

\* is_header_footer(s) or NOISE_CHUNK_RE.search(s) or DOC_MARKUP_RE.match(s):
\* DOC_MARKUP_RE matches a line that begins with Sample, Example(s) or
\* the Russian word for example
IsNoise(s) == s = "example"

\* LEVEL_LINE_RE.search(s)
LEVEL_LINE_RE(s) == s = "level"

\* META_OR_SECTION_RE.search(s)
META_OR_SECTION_RE(s) == s \in {"description", "trace", "example"}

\* CODE_LINE_COLON_RE.match(s)
CODE_LINE_COLON_RE(s) == s = "code"

\* looks_like_code_by_ext(s, ".py")
looks_like_code_by_ext(s) == s \in {"anchor", "code", "free"}

\* is_plain_codeish(s)
is_plain_codeish(s) == s \in {"anchor", "loose", "code", "free"}

\* the lines post_filter_snippet keeps
KeptBySnippetFilter(s) == s \in {"code", "free", "loose", "anchor"}

\* while look < L and safety < 250
ScanLimit == 250

\* max_free = 60
MaxFree == 60

\* the locals of run
RunLocals(i, current_rule, current_desc) ==
    [i |-> i, current_rule |-> current_rule, current_desc |-> current_desc,
     anchor |-> 0, look |-> 0, safety |-> 0, in_code_block |-> FALSE,
     max_free |-> MaxFree, level_word |-> S_unknown, raw_code |-> <<>>,
     scanned |-> 0]

\* one pass through the body of the inner loop, lines 257-337, for the
\* line s = lines[look]: the locals after it and whether the loop was left
\* by break
ScanLine(st, s) ==
    LET next == [st EXCEPT !.look = @ + 1, !.safety = @ + 1, !.scanned = @ + 1]
        seen == [st EXCEPT !.safety = @ + 1, !.scanned = @ + 1]
        collected == [next EXCEPT !.raw_code = Append(@, st.look),
                                  !.in_code_block = TRUE]
    IN  IF PATH_LINE_RE(s) \/ BLOCK_TITLE_RE(s)
        THEN [st |-> seen, brk |-> TRUE]
        ELSE IF IsBlank(s) \/ IsNoise(s)
        THEN [st |-> next, brk |-> FALSE]
        ELSE IF LEVEL_LINE_RE(s)
        THEN [st |-> [next EXCEPT !.level_word = <<"H","i","g","h">>], brk |-> FALSE]
        ELSE IF META_OR_SECTION_RE(s)
        THEN IF st.in_code_block
             THEN [st |-> seen, brk |-> TRUE]
             ELSE [st |-> next, brk |-> FALSE]
        ELSE IF CODE_LINE_COLON_RE(s)
        THEN [st |-> collected, brk |-> FALSE]
        ELSE IF looks_like_code_by_ext(s)
        THEN [st |-> [collected EXCEPT !.max_free = @ - 1],
              brk |-> st.max_free - 1 <= 0]
        ELSE IF st.in_code_block
        THEN [st |-> seen, brk |-> TRUE]
        ELSE [st |-> next, brk |-> FALSE]

\* the fallback loop, lines 342-356: the lines taken from position j on
RECURSIVE Fallback(_, _, _)
Fallback(lines, j, take) ==
    IF j > Len(lines) \/ take >= 3 THEN <<>>
    ELSE LET t == lines[j]
         IN  IF IsBlank(t) THEN Fallback(lines, j + 1, take)
             ELSE IF PATH_LINE_RE(t) \/ BLOCK_TITLE_RE(t) THEN <<>>
             ELSE IF /\ ~(IsNoise(t) \/ META_OR_SECTION_RE(t))
                     /\ (looks_like_code_by_ext(t) \/ is_plain_codeish(t))
             THEN <<j>> \o Fallback(lines, j + 1, take + 1)
             ELSE Fallback(lines, j + 1, take)

\* post_filter_snippet(raw_code), or of the fallback lines when it is empty
Snippet(lines, st) ==
    LET Kept(k) == KeptBySnippetFilter(lines[k])
        snippet == SelectSeq(st.raw_code, Kept)
    IN  IF snippet # <<>> THEN snippet
        ELSE SelectSeq(Fallback(lines, st.anchor + 1, 0), Kept)

\* the texts: with or without a rule title before the body, every body of
\* up to MaxBody lines, and texts with more than ScanLimit lines after an
\* anchor
MaxBody == 4

BodiesUpTo(n) == UNION {[1..m -> LineTexts] : m \in 0..n}

LongTexts ==
    {<<"title", "anchor">> \o [k \in 1..(ScanLimit + 2) |-> filler] \o tail :
         filler \in {"blank", "prose", "free"},
         tail \in {<<>>, <<"code">>, <<"anchor">>}}

PdfTexts ==
    {head \o body : head \in {<<>>, <<"title">>}, body \in BodiesUpTo(MaxBody)}
        \cup LongTexts

InitPdf ==
    /\ lastRaw \in PdfTexts
    /\ lastRes = RunLocals(1, 0, 0)
    /\ warnings = <<>>
    /\ phase = "outer"
    /\ workers = NoWorkers
    /\ queue = NoQueue
    /\ ui = UiIdle
    /\ hist = NoHist
    /\ code = NoCode
    /\ idx = NoIdx

\* lines 215-241 and 372: an iteration of the outer loop on a line that
\* does not start a finding
pdf_outer_line ==
    /\ phase = "outer"
    /\ lastRes.i <= Len(lastRaw)
    /\ LET line == lastRaw[lastRes.i]
           accepted == /\ PATH_LINE_RE(line) /\ lastRes.current_rule # 0
                       /\ STRICT_PATH_RE(line)
       IN  /\ ~accepted
           /\ lastRes' =
                 IF BLOCK_TITLE_RE(line)
                 THEN [lastRes EXCEPT !.current_rule = lastRes.i,
                                      !.current_desc = 0, !.i = @ + 1]
                 ELSE IF DESCRIPTION_ANCHOR_RE(line)
                 THEN LET after == {j \in (lastRes.i + 1)..Len(lastRaw) :
                                        ~IsBlank(lastRaw[j])}
                      IN  [lastRes EXCEPT
                              !.current_desc =
                                  IF after = {} THEN @
                                  ELSE CHOOSE j \in after : \A k \in after : j <= k,
                              !.i = @ + 1]
                 ELSE [lastRes EXCEPT !.i = @ + 1]
    /\ UNCHANGED <<warnings, lastRaw, phase>>
    /\ TriageFrame

\* lines 236-254: a path:line anchor under a rule title starts a finding
pdf_anchor ==
    /\ phase = "outer"
    /\ lastRes.i <= Len(lastRaw)
    /\ PATH_LINE_RE(lastRaw[lastRes.i])
    /\ STRICT_PATH_RE(lastRaw[lastRes.i])
    /\ lastRes.current_rule # 0
    /\ lastRes' = [RunLocals(lastRes.i, lastRes.current_rule, lastRes.current_desc)
                      EXCEPT !.anchor = lastRes.i, !.look = lastRes.i + 1]
    /\ phase' = "scan"
    /\ UNCHANGED <<warnings, lastRaw>>
    /\ TriageFrame

\* lines 256-337: one iteration of the forward scan
pdf_scan ==
    /\ phase = "scan"
    /\ lastRes.look <= Len(lastRaw)
    /\ lastRes.safety < ScanLimit
    /\ LET r == ScanLine(lastRes, lastRaw[lastRes.look])
       IN  /\ lastRes' = r.st
           /\ phase' = IF r.brk THEN "emit" ELSE "scan"
    /\ UNCHANGED <<warnings, lastRaw>>
    /\ TriageFrame

\* line 256: the condition of the scan is false
pdf_scan_exhausted ==
    /\ phase = "scan"
    /\ ~(lastRes.look <= Len(lastRaw) /\ lastRes.safety < ScanLimit)
    /\ phase' = "emit"
    /\ UNCHANGED <<warnings, lastRaw, lastRes>>
    /\ TriageFrame

\* lines 339-370: the snippet, the finding and i = look
pdf_emit ==
    /\ phase = "emit"
    /\ LET o == PdfReportImporter_record(
                    [level_word |-> lastRes.level_word,
                     file_path  |-> <<"s","r","c","/","a","p","p","/","v","i","e","w","s",".","p","y">>,
                     line       |-> 12])
           w == [ParsedDTO(<<>>, o.severity, o.file_path, <<>>, o.start_line, NoLine)
                    EXCEPT !.comment = Snippet(lastRaw, lastRes)]
       IN  IF o.raised = "none"
           THEN /\ warnings' = Append(warnings, w)
                /\ lastRes' = [lastRes EXCEPT !.i = lastRes.look]
                /\ phase' = "outer"
           ELSE /\ phase' = "raised"
                /\ UNCHANGED <<warnings, lastRes>>
    /\ UNCHANGED lastRaw
    /\ TriageFrame

\* line 374: return items
pdf_return ==
    /\ phase = "outer"
    /\ lastRes.i > Len(lastRaw)
    /\ phase' = "returned"
    /\ UNCHANGED <<warnings, lastRaw, lastRes>>
    /\ TriageFrame

NextPdf ==
    \/ pdf_outer_line
    \/ pdf_anchor
    \/ pdf_scan
    \/ pdf_scan_exhausted
    \/ pdf_emit
    \/ pdf_return

SpecPdf == InitPdf /\ [][NextPdf]_vars

-----------------------------------------------------------------------------
(* SpecClassify: analyze_warning on the paths of a project tree: a         *)
(* directory with or without a marker, holding a file with or without one  *)

\* directories of the paths: application code, test, documentation, locale
\* and vendor directories
ClassifyDirs ==
    {<<"a","p","p">>,
     <<"t","e","s","t","s">>,
     <<"T","e","s","t","s">>,
     <<"d","o","c","s">>,
     <<"l","o","c","a","l","e">>,
     <<"s","i","t","e","-","p","a","c","k","a","g","e","s">>,
     <<"d","i","s","t","-","p","a","c","k","a","g","e","s">>,
     <<"v","e","n","d","o","r">>}

\* file names of the paths
ClassifyNames ==
    {<<"v","i","e","w","s",".","p","y">>,
     <<"t","e","s","t","_","v","i","e","w","s",".","p","y">>,
     <<"v","i","e","w","s","_","t","e","s","t",".","p","y">>,
     <<"R","E","A","D","M","E",".","t","x","t">>,
     <<"i","n","d","e","x",".","r","s","t">>,
     <<"d","j","a","n","g","o",".","p","o">>,
     <<"a","p","p",".","j","s">>,
     <<"i","n","d","e","x",".","h","t","m","l">>,
     <<"p","a","c","k","a","g","e",".","j","s","o","n">>,
     <<"s","e","t","t","i","n","g","s",".","p","y">>}

InitClassify ==
    /\ \E rule \in RuleIds, level \in {S_critical, S_low},
          dir \in ClassifyDirs, name \in ClassifyNames :
          warnings = <<WarningDTO(rule, level, <<<<"p","r","o","j">>, dir, name>>, <<>>)>>
    /\ lastRaw = <<>>
    /\ lastRes = NoResult
    /\ phase = "new"
    /\ workers = NoWorkers
    /\ queue = NoQueue
    /\ ui = UiIdle
    /\ hist = NoHist
    /\ code = NoCode
    /\ idx = NoIdx

\* analyze_warning(rule_id=..., file_path=..., level=..., code=..., text=...)
\* as annotate_one calls it for the finding
analyze_warning_call ==
    /\ phase = "new"
    /\ lastRes' = analyze_warning(warnings[1].rule_id, warnings[1].file_path,
                                  warnings[1].severity, warnings[1].message)
    /\ phase' = "classified"
    /\ UNCHANGED <<warnings, lastRaw>>
    /\ TriageFrame

NextClassify == analyze_warning_call

SpecClassify == InitClassify /\ [][NextClassify]_vars

-----------------------------------------------------------------------------
(* SpecWorkers: a batch run during which the user goes on using the main   *)
(* window (the progress dialog is not modal): the selection of the tree    *)
(* changes and the AI button is pressed                                    *)

\* _on_item_changed: the current item becomes finding k, or (k = 0) a group
\* node or nothing; a finding enables btn_ai, anything else disables it in
\* _clear_details
_on_item_changed ==
    /\ MainIdle
    /\ ui.error_boxes = 0
    /\ \E k \in 0..NumFindings :
           /\ k # ui.current
           /\ ui' = [ui EXCEPT !.current = k, !.btn_ai_enabled = (k # 0)]
    /\ UNCHANGED <<warnings, workers, queue, hist>>
    /\ BatchFrame

\* _ai_clicked (btn_ai) -> _ai_run(the selected findings)
_ai_clicked ==
    /\ MainIdle
    /\ ui.btn_ai_enabled
    /\ ui.error_boxes = 0
    /\ Len(workers) < MaxRuns + 1
    /\ ui' = [_toggle_ai_actions(ui, FALSE) EXCEPT
                 !.progress_open = TRUE,
                 !.progress_value = 0,
                 !.progress_max = 1]
    /\ workers' = Append(workers, NewWorker(<<ui.current>>))
    /\ hist' = NewRun
    /\ UNCHANGED <<warnings, queue>>
    /\ BatchFrame

NextWorkers ==
    \/ _ai_clicked_whole
    \/ _on_item_changed
    \/ _ai_clicked
    \/ \E r \in DOMAIN workers : WorkerStep(r)
    \/ _ai_started
    \/ _ai_progressed_setValue
    \/ _ai_progressed_coerce
    \/ _apply_status
    \/ _apply_severity_ui
    \/ _apply_comment
    \/ _apply_ml_confidence
    \/ _ai_error
    \/ error_box_closed
    \/ _ai_finished

SpecWorkers == InitBatch /\ [][NextWorkers]_vars

-----------------------------------------------------------------------------
(* Claims                                                                  *)

\* the finding of SpecTriage
Triaged == warnings[1]

\* the heuristic classifies the path as non-production
NonProdPath(w) ==
    LET ctx == analyze_warning(w.rule_id, w.file_path, w.severity, w.message)
    IN  ctx.is_test \/ ctx.is_doc \/ ctx.is_locale \/ ctx.is_third_party

AnswerParses(raw) == JsonLoadsOk(json_part(raw))

AnswerStatus(raw) ==
    Lower(Strip(PyStr(DictGet(json_part(raw), "status", StrV(<<>>)))))

\* the parsed answer says confirmed, in either vocabulary the prompts use
OracleSaysConfirmed(raw) ==
    /\ AnswerParses(raw)
    /\ \/ AnswerStatus(raw) = S_confirmed
       \/ StartsWith(AnswerStatus(raw), Lower(SubSeq(S_Podtverzhdeno, 1, 8)))

\* the answer is empty or holds no parseable JSON object
AnswerMalformed(raw) == ~AnswerParses(raw)

\* the answer carries no verdict at all: malformed, or neither a status
\* word nor an is_security_issue flag
AnswerWithoutVerdict(raw) ==
    \/ AnswerMalformed(raw)
    \/ /\ AnswerStatus(raw) = <<>>
       /\ DictGet(json_part(raw), "is_security_issue", NoneV).kind # "bool"

\* C1: a finding on a non-production path whose oracle answer says
\* confirmed always ends false_positive (rejected), never confirmed.
C1_NonProdOverride ==
    (phase = "triaged" /\ NonProdPath(Triaged) /\ OracleSaysConfirmed(lastRaw))
        => Triaged.status = S_Otkloneno

\* C2: without an oracle verdict (empty, non-JSON or status-less answer)
\* the outcome of triage is never confirmed.
C2_NoConfirmWithoutVerdict ==
    (phase = "triaged" /\ AnswerWithoutVerdict(lastRaw))
        => Triaged.status # S_Podtverzhdeno

\* C3: after a malformed oracle answer the applied confidence is at most 0.3.
C3_MalformedLowConfidence ==
    (phase = "triaged" /\ AnswerMalformed(lastRaw))
        => 10 * Triaged.ml_confidence <= 3 * ConfOne

\* C10: every confidence applied to a finding lies in [0, 1].
C10_ConfidenceRange ==
    \A i \in DOMAIN warnings :
        /\ 0 <= warnings[i].ml_confidence
        /\ warnings[i].ml_confidence <= ConfOne

\* a result whose raw confidence is far above the 0-100 scale was applied
C10_Witness ==
    /\ phase = "applied"
    /\ "confidence" \in lastRes.has
    /\ lastRes.confidence.kind = "num"
    /\ lastRes.confidence.n > 100 * ConfOne
    /\ Triaged.ml_confidence = ConfOne

\* what find returns for a hint against the complete index of a root
CompleteFind(root, hint) ==
    IF root = "none" THEN FoundNone
    ELSE find(root, ByRelAfter(root, Len(WalkFiles(root))),
              ByNameAfter(root, Len(WalkFiles(root))), hint)

\* C9: a find call that overlaps set_root returns what the complete index
\* of the old root or the complete index of the new root gives for its hint;
\* it never sees a root together with an empty or half-filled index.
C9_AtomicRebuild ==
    idx.resolver.pc = "returned" =>
        \E root \in idx.resolver.roots :
            idx.resolver.result = CompleteFind(root, idx.resolver.hint)

\* the worker of the current run
CurrentWorker == workers[Len(workers)]

\* every run started so far has returned from _AIWorker.run
AllRunsReturned == \A r \in DOMAIN workers : workers[r].pc = "done"

\* C4 (safety part): a run that has returned emitted finished, and unless
\* cancellation was requested it handed every finding of the batch to
\* annotate_one, whatever the oracle did on earlier findings.
OracleFailureContained ==
    \A r \in DOMAIN workers :
        workers[r].pc = "done" =>
            /\ r = Len(workers) => hist.finished_emitted = 1
            /\ ~workers[r].stop => workers[r].i = Len(workers[r].ws)
            /\ (r = Len(workers) /\ ~workers[r].stop) =>
                   hist.submitted = {workers[r].ws[k] : k \in 1..Len(workers[r].ws)}

\* C4: an oracle failure on a finding never halts the batch: every run
\* returns with the finished signal, and a run that was not cancelled has
\* submitted every finding.
C4_OracleFailureNeverHalts ==
    /\ []OracleFailureContained
    /\ []<>AllRunsReturned

C4_Witness ==
    /\ workers # <<>>
    /\ CurrentWorker.pc = "done"
    /\ ~CurrentWorker.stop
    /\ hist.finished_emitted = 1
    /\ \E k \in hist.raised : \E j \in hist.submitted : j > k

\* C5: when a run that was not cancelled has finished, every finding of
\* the batch carries a disposition, also those whose oracle call raised.
C5_EveryFindingDisposed ==
    (workers # <<>> /\ hist.finished_handled /\ ~hist.cancelled) =>
        \A k \in 1..Len(CurrentWorker.ws) :
            warnings[CurrentWorker.ws[k]].status # S_NeObrabotano

\* no finding is left with some but not all disposition fields written
NoPartialDisposition ==
    MainIdle => \A k \in DOMAIN hist.written :
                    hist.written[k] \in {{}, DispositionFields}

\* a worker whose _stop is set starts no further finding
StopObserved ==
    \A r \in DOMAIN workers : workers[r].stop => workers'[r].i = workers[r].i

\* C6: cancellation is observed between findings only: after stop() the
\* worker starts no new finding, and once the slot has returned a finding
\* is either completely disposed or untouched.
C6_CancelBetweenFindings == []NoPartialDisposition /\ [][StopObserved]_vars

C6_Witness ==
    /\ workers # <<>>
    /\ CurrentWorker.pc = "done"
    /\ hist.cancelled
    /\ hist.inflight_at_cancel # 0
    /\ CurrentWorker.i < Len(CurrentWorker.ws)
    /\ MainIdle /\ queue = <<>>
    /\ hist.written[hist.inflight_at_cancel] = DispositionFields
    /\ \E k \in DOMAIN hist.written : hist.written[k] = {}

\* C7: the progress value is i only when the dispositions of findings
\* 1..i of the batch are completely written.
C7_ProgressAfterDisposition ==
    (workers # <<>> /\ ui.progress_open) =>
        \A k \in 1..ui.progress_value :
            hist.written[CurrentWorker.ws[k]] = DispositionFields

\* every result annotate_one produced in the run has been applied by the
\* time _ai_finished has run
ProducedIsApplied ==
    hist.finished_handled =>
        \A k \in hist.produced : hist.written[k] = DispositionFields

\* a completely written disposition stays as it is for the rest of the run
DispositionKept ==
    \A k \in DOMAIN hist.written :
        (hist.written[k] = DispositionFields /\ Len(workers') = Len(workers)) =>
            warnings'[k] = warnings[k]

\* C8: partial results survive cancellation: what was disposed stays
\* disposed, and a result produced before the cancel request is applied.
C8_PartialResultsSurvive == []ProducedIsApplied /\ [][DispositionKept]_vars

C8_Witness ==
    /\ hist.cancelled
    /\ hist.finished_handled
    /\ hist.pending_at_cancel # {}
    /\ \A k \in hist.pending_at_cancel :
          /\ hist.written[k] = DispositionFields
          /\ warnings[k].status # S_NeObrabotano

\* the decided statuses of a disposition
DecidedStatuses == {S_Podtverzhdeno, S_Otkloneno}

\* C11: every finding that carries a disposition has a non-empty comment,
\* after any sequence of AI results and manual annotations.
C11_CommentNeverEmpty ==
    \A i \in DOMAIN warnings :
        warnings[i].status \in DecidedStatuses => warnings[i].comment # <<>>

\* C12: every record a parser reads becomes a finding (the parser returns)
\* whose reported severity is one of critical, medium, low, info, whatever
\* the level string of the record.
C12_SeverityClosure ==
    /\ \A i \in DOMAIN warnings : warnings[i].severity \in SeverityNames
    /\ phase = "imported" =>
           /\ lastRes.raised = "none"
           /\ lastRes.severity \in SeverityNames

\* C19: a finding read from a SARIF result whose region has startLine and no
\* endLine has end_line equal to start_line, and reported severity critical
\* when the level is 'error', whichever loader read it.
C19_EndLineDefaultsToStart ==
    /\ phase = "imported"
    /\ lastRes.parser \in {"load_sarif", "SarifReportImporter"}
    /\ lastRaw[1].startLine # NoLine
    /\ lastRaw[1].endLine = NoLine
    /\ warnings # <<>>
    => /\ warnings[1].end_line = warnings[1].start_line
       /\ lastRaw[1].level = StrV(S_error) => warnings[1].severity = S_critical

\* C20: the file path of every finding a parser produced is not empty (it is
\* "Unknown" when the report gives no location).
C20_FileHintNeverEmpty ==
    \A i \in DOMAIN warnings :
        /\ warnings[i].file_path # <<>>
        /\ phase = "imported" /\ lastRes.parser = "load_sarif"
               /\ ~PyTruth(Get(lastRaw[1].uri))
           => warnings[i].file_path = S_Unknown

\* services/llm/settings.py: AI_TESTS_ALWAYS_FP with the environment variable
\* unset; no module reads it
AI_TESTS_ALWAYS_FP == TRUE

\* a hardcoded-credential or configuration rule on a non-production path
TerminalCase(w) ==
    /\ _detect_rule_family(w.rule_id) \in {"crypto", "config"}
    /\ NonProdPath(w)

\* annotate_one reached client.generate for the finding
OracleInvoked == phase \in {"triaged", "oracle_raised"}

\* C13: for a finding with a hardcoded-credential/config rule on a
\* non-production path, triage never invokes the oracle and leaves the
\* finding false_positive (rejected).
C13_TerminalShortCircuit ==
    (AI_TESTS_ALWAYS_FP /\ TerminalCase(Triaged)) =>
        /\ ~OracleInvoked
        /\ phase = "triaged" => Triaged.status = S_Otkloneno

\* the status and severity words of the result the slot received last
ResultStatusWord == Lower(PyStr(SrcGet(lastRes, "status", StrV(<<>>))))

ResultSeverityWord == Lower(PyStr(SrcGet(lastRes, "severity", StrV(<<>>))))

\* C14: after _coerce_ai_result and _apply_ai_result have run on a result of
\* any shape, the finding's status is Podtverzhdeno or Otkloneno (Otkloneno
\* unless the result says confirmed) and its effective severity is one of
\* critical, medium, low, info (info when the result's word is none of them).
C14_DispositionNormalized ==
    phase \in {"triaged", "applied"} =>
        /\ Triaged.status \in DecidedStatuses
        /\ ResultStatusWord # S_confirmed => Triaged.status = S_Otkloneno
        /\ eff_severity(Triaged) \in SeverityNames
        /\ ResultSeverityWord \notin SeverityNames => eff_severity(Triaged) = S_info

\* a tuple result with an unknown status and an unknown severity was applied
C14_Witness ==
    /\ phase = "applied"
    /\ lastRes.shape = "tuple"
    /\ ResultStatusWord \notin {S_confirmed, S_false_positive}
    /\ ResultSeverityWord \notin SeverityNames
    /\ Triaged.severity \notin SeverityNames
    /\ Triaged.status = S_Otkloneno
    /\ eff_severity(Triaged) = S_info

\* the answer holds a well-formed JSON object from token i to token j
ObjectAt(raw, i, j) == JsonLoadsOk(SubSeq(raw, i, j))

ContainsObject(raw) ==
    \E i \in 1..Len(raw), j \in 1..Len(raw) : i <= j /\ ObjectAt(raw, i, j)

\* the first well-formed object of the answer: the leftmost start, and the
\* matching close
FirstObject(raw) ==
    LET i == CHOOSE a \in 1..Len(raw) :
                 /\ \E j \in a..Len(raw) : ObjectAt(raw, a, j)
                 /\ \A b \in 1..(a - 1) : \A j \in b..Len(raw) : ~ObjectAt(raw, b, j)
        j == CHOOSE c \in i..Len(raw) :
                 /\ ObjectAt(raw, i, c)
                 /\ \A d \in i..(c - 1) : ~ObjectAt(raw, i, d)
    IN  SubSeq(raw, i, j)

\* C15: when the oracle's answer contains a well-formed JSON object, with
\* prose, fences or stray braces around it, _parse_answer parses the first
\* such object and does not fall back to the heuristic.
C15_FirstObjectExtracted ==
    (phase = "triaged" /\ ContainsObject(lastRaw)) =>
        /\ JsonLoadsOk(json_part(lastRaw))
        /\ json_part(lastRaw) = FirstObject(lastRaw)

\* the parts of the hint of the resolver call
HintParts ==
    LET raw == Strip(idx.hint)
    IN  PathParts(SubSeq(ReplaceBackslash(raw), 1, Len(raw)))

\* every file is as it was when the root was indexed
FilesAsIndexed == \A p \in DOMAIN idx.files : idx.files[p] = "ok"

\* C16: the path a resolver returns agrees with the hint on at least as many
\* trailing path segments as any other indexed file does.
C16_LongestSuffixWins ==
    (/\ phase = "resolved"
     /\ code.root # "none"
     /\ FilesAsIndexed
     /\ idx.result.kind = "path"
     /\ idx.result.root = code.root)
    => \A n \in 1..Len(WalkFiles(code.root)) :
           TailScore(HintParts, WalkFiles(code.root)[n])
               <= TailScore(HintParts, idx.result.rel)

\* the candidates of the lookup by name in find_best
SameNamed ==
    LET base == Lower(Basename(FindKey(idx.hint)))
    IN  IF base # <<>> /\ base \in DOMAIN code.by_name THEN code.by_name[base] ELSE <<>>

\* the score the documentation of find_best gives a candidate: 2 for a line
\* hint within the file, plus the length of the first needle the file holds
DocScore(p) ==
    LET text    == FileText(p)
        needles == _needles_from_snippet(idx.snippet)
        found   == {k \in 1..Len(needles) :
                       \E i \in 1..Len(text) : Contains(text[i], needles[k])}
    IN  (IF idx.line \in 1..Len(text) THEN 2 ELSE 0)
        + (IF found = {} THEN 0
           ELSE Len(needles[CHOOSE k \in found : \A m \in found : k <= m]))

Readable == {i \in 1..Len(SameNamed) : FileState(idx.files, SameNamed[i]) = "ok"}

\* find_best went to the lookup by name and found candidates
SameNameLookup ==
    /\ phase = "resolved"
    /\ idx.call = "find_best"
    /\ code.root # "none"
    /\ FindKey(idx.hint) \notin DOMAIN code.by_rel
    /\ SameNamed # <<>>

\* C17: when find_best chooses among indexed files of the hinted name, it
\* never returns None; among several it returns the first-indexed candidate
\* of maximal score, and the first candidate when none can be read.
C17_BestSameName ==
    SameNameLookup =>
        /\ idx.result.kind = "path"
        /\ Len(SameNamed) >= 2 =>
             IF Readable = {}
             THEN idx.result = FoundPath(SameNamed[1])
             ELSE \E i \in Readable :
                     /\ idx.result = FoundPath(SameNamed[i])
                     /\ \A j \in Readable :
                            /\ DocScore(SameNamed[j]) <= DocScore(SameNamed[i])
                            /\ DocScore(SameNamed[j]) = DocScore(SameNamed[i]) => i <= j

\* two readable candidates tie at the best, positive score and the one
\* indexed first is returned
C17_Witness ==
    /\ SameNameLookup
    /\ \E i, j \in Readable :
          /\ i < j
          /\ DocScore(SameNamed[i]) = DocScore(SameNamed[j])
          /\ DocScore(SameNamed[i]) > 0
          /\ \A k \in Readable : DocScore(SameNamed[k]) <= DocScore(SameNamed[i])
          /\ idx.result = FoundPath(SameNamed[i])

\* C18: a hint that is an absolute path of an existing file resolves to that
\* path, with or without a bound root.
C18_AbsoluteHintDirect ==
    (/\ phase = "resolved"
     /\ IsAbsolute(Strip(idx.hint))
     /\ AbsExists(idx.files, HintParts))
    => idx.result = FoundPath(AbsPath(HintParts))

\* the fields of a finding that describe the reported issue
FindingFields ==
    {"rule_id", "severity", "file_path", "message", "code_snippet",
     "snippet_text", "start_line", "start_col", "end_line", "end_col"}

\* C22: no step of triage (an AI result applied, a manual annotation)
\* changes rule_id, reported severity, file_path, message, snippet or the
\* line/column fields of a finding; the set of findings and the fields of
\* each stay the same.
C22_FindingNeverMutated ==
    [][/\ DOMAIN warnings' = DOMAIN warnings
       /\ \A i \in DOMAIN warnings :
              /\ DOMAIN warnings'[i] = DOMAIN warnings[i]
              /\ FindingFields \subseteq DOMAIN warnings[i]
              /\ \A f \in FindingFields : warnings'[i][f] = warnings[i][f]]_vars

\* a manual annotation made after an AI result: both handlers have written
\* the disposition of a finding that still has the reported severity
C22_Witness ==
    /\ phase = "manual"
    /\ warnings[1].ml_confidence > 0
    /\ warnings[1].status = S_Otkloneno
    /\ warnings[1].severity_ui = S_critical
    /\ warnings[1].severity = S_low
    /\ warnings[1].end_line = 14

\* the disposition a finding starts with
FreshDisposition(w) ==
    [w EXCEPT !.status = S_NeObrabotano, !.severity_ui = <<>>,
              !.comment = <<>>, !.ml_confidence = 0]

\* C23: after any sequence of AI results and manual annotations every
\* disposition field is the one of the most recent decision: after an AI
\* result the finding is what the result makes of a fresh disposition, and
\* after a manual annotation no confidence of an earlier AI result remains.
C23_DispositionReplacedWholesale ==
    /\ phase \in {"triaged", "applied"} =>
           warnings[1] =
               _apply_ai_result(FreshDisposition(warnings[1]),
                                _coerce_ai_result(lastRes))
    /\ phase = "manual" => warnings[1].ml_confidence = 0

\* C26: when the oracle answers with the well-formed JSON object the system
\* prompt asks for and its status is "confirmed", a finding without a
\* non-production flag ends confirmed, whatever the heuristic risk hint.
C26_PromptedConfirmedIsConfirmed ==
    (phase = "triaged" /\ lastRaw = PromptedConfirmed /\ ~NonProdPath(Triaged))
        => /\ lastRes.status = StrV(S_confirmed)
           /\ Triaged.status = S_Podtverzhdeno

\* the signals of the current run still queued to the main thread
QueuedOfCurrentRun == SelectSeq(queue, LAMBDA s : s.run = Len(workers))

\* finished is the last signal a run emits, and it is emitted at most once
FinishedIsLast ==
    /\ hist.finished_emitted <= 1
    /\ \A k \in DOMAIN QueuedOfCurrentRun :
           QueuedOfCurrentRun[k].sig = "finished" => k = Len(QueuedOfCurrentRun)
    /\ hist.finished_handled =>
           /\ hist.finished_emitted = 1
           /\ QueuedOfCurrentRun = <<>>

\* the slot of finished has re-enabled what _ai_run disabled
ReenabledOnFinished ==
    hist.finished_handled => (ui.acts_enabled /\ ~ui.progress_open)

\* C28: every batch run eventually emits finished, exactly once, whether
\* it completes, is cancelled or the oracle raises; no signal of the run
\* follows finished; handling finished re-enables the AI actions.
C28_FinishedExactlyOnce ==
    /\ [](FinishedIsLast /\ ReenabledOnFinished)
    /\ (workers # <<>>) ~> (hist.finished_emitted = 1)

\* a run that was cancelled after an oracle call raised, with finished
\* handled
C28_Witness ==
    /\ hist.finished_handled
    /\ hist.cancelled
    /\ hist.raised # {}
    /\ hist.produced # {}
    /\ ui.acts_enabled

\* the workers whose run has not returned
RunningWorkers == {r \in DOMAIN workers : workers[r].pc # "done"}

\* C27: at most one batch-triage worker is running at any time, whatever
\* the user does in the main window during a run.
C27_SingleWorker == Cardinality(RunningWorkers) <= 1

\* directory names and file-name patterns that mark a path as test,
\* documentation, locale or vendor code
MarkerDirs ==
    {<<"t","e","s","t","s">>, <<"d","o","c","s">>, <<"d","o","c">>,
     <<"l","o","c","a","l","e">>,
     <<"s","i","t","e","-","p","a","c","k","a","g","e","s">>,
     <<"d","i","s","t","-","p","a","c","k","a","g","e","s">>}

CarriesNonProdMarker(path) ==
    LET name == Lower(PathName(path))
    IN  \/ PathPartsLower(path) \cap MarkerDirs # {}
        \/ StartsWith(name, <<"t","e","s","t","_">>)
        \/ EndsWith(name, <<"_","t","e","s","t",".","p","y">>)
        \/ EndsWith(name, <<".","t","x","t">>)
        \/ EndsWith(name, <<".","r","s","t">>)
        \/ EndsWith(name, <<".","p","o">>)

\* C24: a path that carries a test, doc, locale or vendor marker (a
\* directory or a file name) is classified non-production, with the risk
\* hint likely_fp, whatever the extension or the name of the file.
C24_MarkedPathNonProd ==
    (phase = "classified" /\ CarriesNonProdMarker(warnings[1].file_path))
        => /\ lastRes.file_role \in {"test", "doc", "locale", "third_party"}
           /\ lastRes.risk_hint = "likely_fp"

\* the lines that consist of a section word: Description, Trace, Example
SectionWordLines == {"description", "trace", "example"}

\* the next path anchor or rule-block title
BoundaryLines == {"anchor", "loose", "title"}

\* C25: in the scan that follows a path:line anchor, a section-word line
\* ends code collection when at least one code line has been collected and
\* is skipped, the scan going on, when none has; a path anchor or a rule
\* title always ends the scan.
C25_SectionWordEndsCollection ==
    [][(/\ phase = "scan"
        /\ lastRes.look <= Len(lastRaw)
        /\ lastRes.safety < ScanLimit)
       => LET s == lastRaw[lastRes.look]
          IN  /\ s \in BoundaryLines => phase' = "emit"
              /\ s \in SectionWordLines =>
                     IF lastRes.raw_code # <<>>
                     THEN /\ phase' = "emit"
                          /\ lastRes'.raw_code = lastRes.raw_code
                     ELSE /\ phase' = "scan"
                          /\ lastRes'.look = lastRes.look + 1
                          /\ lastRes'.raw_code = <<>>]_vars

\* the anchors run accepts: path:line lines with a strict path that follow
\* a rule title
AcceptedAnchors ==
    {k \in DOMAIN lastRaw :
        /\ lastRaw[k] = "anchor"
        /\ \E t \in 1..(k - 1) : lastRaw[t] = "title"}

\* C29: run terminates on every text: the line index never decreases and
\* grows with every iteration of the outer loop, after an anchor it is
\* beyond the anchor, the forward scan examines at most 250 lines, and run
\* returns one finding for each accepted anchor.
C29_RunTerminates ==
    /\ [](/\ lastRes.scanned <= ScanLimit
          /\ phase = "emit" => lastRes.look > lastRes.anchor
          /\ phase # "raised"
          /\ phase = "returned" => Len(warnings) = Cardinality(AcceptedAnchors))
    /\ [][/\ lastRes'.i >= lastRes.i
          /\ (phase = "outer" /\ phase' = "outer") => lastRes'.i > lastRes.i]_vars

\* the entries of a report that are well-formed: an object whose rule,
\* level, message and locations have the right type
WellFormed(en) ==
    /\ en.shape = "dict"
    /\ en.rule.kind \in {"absent", "obj"}
    /\ en.level.kind \in {"absent", "str"}
    /\ en.message \in {"dict", "absent"}
    /\ en.locations \in {"list", "absent"}

\* C21: a SARIF parser fails as a whole only on a malformed container; on
\* a valid one it returns, skipping every malformed entry of results[] and
\* producing one finding for each of the others.
C21_MalformedRecordSkipped ==
    phase = "parsed" =>
        IF lastRaw.container # "ok" THEN lastRes.raised # "none"
        ELSE /\ lastRes.raised = "none"
             /\ lastRes.n = Len(SelectSeq(lastRaw.results, WellFormed))

\* C30: an import service returns the number of findings it parsed, and
\* the repository then holds exactly these findings, in report order, the
\* findings of earlier imports being gone; list_all returns the items of
\* the repository.
C30_ImportReplacesRepository ==
    /\ phase = "imported" =>
           /\ lastRes.raised = "none"
           /\ lastRes.n = Len(lastRaw.results)
           /\ warnings = lastRes.items
    /\ phase = "listed" => lastRes.items = warnings

====
